---- MODULE Spec2Model ----
(***************************************************************************)
(* State-machine model of the real-time streaming layer of VoiceBridge:    *)
(*   - AudioStreamProcessor     (src/src/services/streaming/audio_processor.py)   *)
(*   - ConnectionManager        (src/src/services/streaming/connection_manager.py)*)
(*   - KafkaStreamService       (src/src/services/kafka_stream_service.py)        *)
(*   - RealtimeStreamingService (src/src/services/realtime_streaming_service.py)  *)
(* Each component has its own variables (prefix asp_, cm_, kss_, rss_) and  *)
(* its own specification (SpecBuffer, SpecCM, SpecKafka, SpecRealtime);     *)
(* the variables of the other components keep their initial value.          *)
(***************************************************************************)
EXTENDS Integers, Sequences, FiniteSets, TLC

(***************************************************************************)
(* Bounds of the model                                                     *)
(***************************************************************************)
\* AudioStreamProcessor(buffer_size=...): the capacity the processor is built with.
buffer_size == 2
\* total number of add_audio_chunk calls explored
MaxAppends == 4

Sessions == {"s1", "s2"}
Connections == {"c1", "c2"}
\* len(audio_chunk) of an incoming chunk: an empty frame or a non-empty one
ChunkLens == {0, 1}

(***************************************************************************)
(* Helpers on sequences                                                    *)
(***************************************************************************)
Min(a, b) == IF a <= b THEN a ELSE b

\* the last n elements of s (list(s)[-n:])
LastN(s, n) == SubSeq(s, Len(s) - Min(n, Len(s)) + 1, Len(s))

RECURSIVE SumLen(_)
\* len(b"".join(chunks)): the byte length of the combined payload
SumLen(chunks) == IF chunks = <<>> THEN 0 ELSE Head(chunks).len + SumLen(Tail(chunks))

\* dict without a key (del d[k])
Without(f, k) == [x \in (DOMAIN f) \ {k} |-> f[x]]

\* dict with d[k] = v
With(f, k, v) == (k :> v) @@ f

EmptyMap == [x \in {} |-> 0]

VARIABLES
  \* ---- AudioStreamProcessor ----
  asp_audio_buffers,   \* self.audio_buffers: session id -> list of chunks
  asp_stats,           \* self.stats
  asp_next_id,         \* identity of the next chunk handed to add_audio_chunk
  asp_appended,        \* per session: the chunks appended since its buffer was last emptied
  asp_result           \* what the last call returned / did

asp_vars == <<asp_audio_buffers, asp_stats, asp_next_id, asp_appended, asp_result>>

VARIABLES
  \* ---- ConnectionManager ----
  cm,                  \* the manager's registries and counters (one record, fields named as in the class)
  cm_transport,        \* per connection: what websocket.send does ("open", "closed", "error")
  cm_adds,             \* number of add_connection calls so far
  cm_result            \* what the last call returned / did

cm_vars == <<cm, cm_transport, cm_adds, cm_result>>

VARIABLES
  \* ---- OpenAIWhisperService / ModelMonitoringService (shared collaborators) ----
  mon_performance_history,  \* performance_history: model name -> recorded samples
  \* ---- KafkaStreamService ----
  kss_kafka_available, \* self.kafka_available (KAFKA_AVAILABLE: the aiokafka import worked)
  kss_producer,        \* self.producer: "None", "created" (built, start() not done), "started"
  kss_consumer,        \* self.consumer: "None", "created", "started"
  kss_loop,            \* the _process_audio_streams task was created (line 135)
  kss_started,         \* what start() returned: "never" (not called), "True", "False"
  broker_up,           \* the broker is reachable
  kss_audio_topic,     \* messages of the audio topic: [key, value]
  kss_offset,          \* number of audio-topic messages the consumer loop has taken
  kss_transcription_topic, \* messages of the transcription topic
  kss_active_sessions, \* self.active_sessions
  kss_processing_stats,\* self.processing_stats
  kss_sends,           \* number of send_audio_chunk calls so far
  kss_processed,       \* the calls of _process_audio_chunk: [path, chunk]
  kss_result           \* what the last call returned / did

kss_vars == <<kss_kafka_available, kss_producer, kss_consumer, kss_loop, kss_started, broker_up,
              kss_audio_topic, kss_offset, kss_transcription_topic, kss_active_sessions,
              kss_processing_stats, kss_sends, kss_processed, kss_result>>

VARIABLES
  \* ---- RealtimeStreamingService ----
  rss_handler,             \* per connection: where handle_websocket_connection stands:
                           \* "closed" (no handler), "welcome" (registered, awaiting the
                           \* welcome send), "open" (in the message loop)
  rss_active_connections,  \* keys of self.active_connections
  rss_connection_sessions, \* self.connection_sessions: connection id -> info
  rss_session_connections, \* self.session_connections: session id -> set of connection ids
  rss_audio_buffers,       \* self.audio_buffers: session id -> list of chunks (byte lengths)
  rss_text_subscribers,    \* self.text_subscribers: session id -> set of connection ids
  rss_text_queue,          \* self.text_queue: session id -> queued transcription messages
  rss_stats,               \* self.stats
  rss_processing_task,     \* per connection: its _process_audio_stream task
  rss_text_task,           \* per connection: its _stream_text_updates task
  rss_delivered,           \* transcription messages written to the websocket of a connection:
                           \* [connection_id, stale]
  rss_torn_down            \* sessions whose buffer held audio when their last connection went,
                           \* until a later connection under the same id is in its message loop

rss_vars == <<rss_handler, rss_active_connections, rss_connection_sessions, rss_session_connections,
              rss_audio_buffers, rss_text_subscribers, rss_text_queue, rss_stats,
              rss_processing_task, rss_text_task, rss_delivered, rss_torn_down>>

VARIABLES
  \* ---- routes/realtime_routes.py ----
  route_request            \* what the last call of a websocket route asked for

route_vars == <<route_request>>

VARIABLES
  \* ---- main.py: the /ws/{client_id} endpoint ----
  main_result              \* what the last process_audio_directly task did

main_vars == <<main_result>>

VARIABLES
  \* ---- ModelMonitoringService: the background monitor ----
  mms_baseline_metrics,    \* self.baseline_metrics: model name -> averages
  mms_alert_history,       \* self.alert_history
  mms_pc,                  \* where the monitor thread stands in its loop body:
                           \* "check" (before _check_model_drift), "update" (before
                           \* _update_baseline_metrics)
  mms_records,             \* number of samples recorded so far
  mms_check,               \* what the last _check_model_drift did
  mms_baseline_len,        \* per model: len(history) when its baseline was last set
  sev_call                 \* the last call of _determine_severity and its result

mms_vars == <<mms_baseline_metrics, mms_alert_history, mms_pc, mms_records, mms_check,
              mms_baseline_len, sev_call>>

VARIABLES
  \* ---- ModelMonitoringService: the monitor thread ----
  mms_active,              \* self.monitoring_active
  mms_cycle,               \* parity of the number of cycles the thread has begun
  mms_failed               \* an exception was raised inside the cycle that runs or ran last

cycle_vars == <<mms_active, mms_cycle, mms_failed>>

VARIABLES
  \* ---- ModelMonitoringService.get_model_health_status ----
  health_alert_history,    \* alert_history as the call finds it (alerts with timestamps)
  health_tracked,          \* the keys of performance_history as the call finds them
  health_call              \* the last call: what it read and what it returned

health_vars == <<health_alert_history, health_tracked, health_call>>

VARIABLES
  \* ---- AudioStreamProcessor: coroutines sharing one session's buffer ----
  drain_audio_buffers, \* self.audio_buffers: session id -> list of chunk identities
  drain_lock,          \* self.buffer_lock: "free" or the coroutine that holds it
  drain_pc,            \* per coroutine: "idle", or the statement it stands before
  drain_chunks,        \* per coroutine: its local `chunks` (the copy)
  drain_next_id,       \* identity of the next chunk handed to add_audio_chunk
  drain_returned,      \* per chunk identity: number of get_audio_chunks calls that returned it
  drain_evicted,       \* chunks removed by pop(0) on overflow
  drain_removed        \* chunks deleted with their session's buffer by cleanup_session

drain_vars == <<drain_audio_buffers, drain_lock, drain_pc, drain_chunks, drain_next_id,
                drain_returned, drain_evicted, drain_removed>>

VARIABLES
  \* ---- ModelMonitoringService: the monitor thread against the recording threads ----
  thr_performance_history, \* performance_history: model name -> number of samples held
  thr_keys,                \* the keys of performance_history in insertion order
  thr_pc,                  \* the monitor thread: "sleep", "iterating" (inside the for loop
                           \* of _check_model_drift), "done" (the call has returned)
  thr_iter,                \* the loop's dict iterator: [pos, size]
  thr_evaluated,           \* the models the running or last call has evaluated
  thr_interleaved,         \* a record call ran while the loop of the call was under way
  thr_error,               \* the call ended in the RuntimeError of its dict iterator
  thr_records              \* number of record calls so far

thread_vars == <<thr_performance_history, thr_keys, thr_pc, thr_iter, thr_evaluated,
                 thr_interleaved, thr_error, thr_records>>

VARIABLES
  \* ---- main.py: websocket_endpoint and its ConnectionManager ----
  ws_active_connections, \* manager.active_connections: client id -> websocket
  ws_handler,            \* per websocket: its websocket_endpoint call: "none", "running" (in
                         \* the receive loop), "ended"
  ws_client,             \* per websocket: the client_id of its path
  ws_received,           \* per websocket: number of audio messages received so far
  ws_tasks,              \* the process_audio_directly tasks created and not yet finished
  ws_sent                \* per websocket: the results sent to it, each named by the number
                         \* of the audio message it answers

ws_vars == <<ws_active_connections, ws_handler, ws_client, ws_received, ws_tasks, ws_sent>>

vars == <<asp_vars, cm_vars, mon_performance_history, kss_vars, rss_vars, route_vars, main_vars,
          mms_vars, health_vars, cycle_vars, drain_vars, thread_vars, ws_vars>>

\* what the steps of one component leave alone
asp_frame == UNCHANGED <<cm_vars, mon_performance_history, kss_vars, rss_vars, route_vars, main_vars,
                         mms_vars, health_vars, cycle_vars, drain_vars, thread_vars, ws_vars>>
cm_frame == UNCHANGED <<asp_vars, mon_performance_history, kss_vars, rss_vars, route_vars, main_vars,
                        mms_vars, health_vars, cycle_vars, drain_vars, thread_vars, ws_vars>>
kss_frame == UNCHANGED <<asp_vars, cm_vars, rss_vars, route_vars, main_vars, mms_vars, health_vars, cycle_vars, drain_vars, thread_vars, ws_vars>>
rss_frame == UNCHANGED <<asp_vars, cm_vars, route_vars, main_vars, mms_vars, health_vars, cycle_vars, drain_vars, thread_vars, ws_vars>>
route_frame == UNCHANGED <<asp_vars, cm_vars, main_vars, mms_vars, health_vars, cycle_vars, drain_vars, thread_vars, ws_vars>>
main_frame == UNCHANGED <<asp_vars, cm_vars, kss_vars, rss_vars, route_vars, mms_vars, health_vars, cycle_vars, drain_vars, thread_vars, ws_vars>>
mms_frame == UNCHANGED <<asp_vars, cm_vars, kss_vars, rss_vars, route_vars, main_vars, health_vars, cycle_vars, drain_vars, thread_vars, ws_vars>>
cycle_frame == UNCHANGED <<asp_vars, cm_vars, kss_vars, rss_vars, route_vars, main_vars, health_vars, drain_vars, thread_vars, ws_vars>>
health_frame == UNCHANGED <<asp_vars, cm_vars, mon_performance_history, kss_vars, rss_vars, route_vars,
                            main_vars, mms_vars, cycle_vars, drain_vars, thread_vars, ws_vars>>
drain_frame == UNCHANGED <<asp_vars, cm_vars, mon_performance_history, kss_vars, rss_vars, route_vars,
                           main_vars, mms_vars, health_vars, cycle_vars, thread_vars, ws_vars>>
thread_frame == UNCHANGED <<asp_vars, cm_vars, mon_performance_history, kss_vars, rss_vars, route_vars,
                            main_vars, mms_vars, health_vars, cycle_vars, drain_vars, ws_vars>>
ws_frame == UNCHANGED <<asp_vars, cm_vars, kss_vars, rss_vars, route_vars, mms_vars, health_vars,
                        cycle_vars, drain_vars, thread_vars>>

(***************************************************************************)
(* AudioStreamProcessor                                                    *)
(***************************************************************************)
asp_Init ==
  /\ asp_audio_buffers = EmptyMap
  /\ asp_stats = [total_chunks_processed |-> 0, total_chunk_size |-> 0, buffer_overflows |-> 0]
  /\ asp_next_id = 1
  /\ asp_appended = [s \in Sessions |-> <<>>]
  /\ asp_result = [op |-> "none"]

\* mutant of BufferAfterAdd: the new chunk is put at the head of the list
BufferAfterAdd_prepend(buf, chunk) ==
  IF Len(buf) >= buffer_size THEN <<chunk>> \o Tail(buf) ELSE <<chunk>> \o buf

\* mutant of BufferAfterAdd: the capacity test is off by one (> for >=)
BufferAfterAdd_offByOne(buf, chunk) ==
  IF Len(buf) > buffer_size THEN Append(Tail(buf), chunk) ELSE Append(buf, chunk)

\* add_audio_chunk, lines 58-66: pop(0) when the list is at capacity, then append
BufferAfterAdd(buf, chunk) ==
  IF Len(buf) >= buffer_size THEN Append(Tail(buf), chunk) ELSE Append(buf, chunk)

\* add_audio_chunk(session_id, audio_chunk)
add_audio_chunk(s, l) ==
  /\ asp_next_id <= MaxAppends
  /\ LET chunk == [id |-> asp_next_id, owner |-> s, len |-> l]
         buf   == IF s \in DOMAIN asp_audio_buffers THEN asp_audio_buffers[s] ELSE <<>>
         full  == Len(buf) >= buffer_size
     IN /\ asp_audio_buffers' = With(asp_audio_buffers, s, BufferAfterAdd(buf, chunk))
        /\ asp_stats' = [total_chunks_processed |-> asp_stats.total_chunks_processed + 1,
                         total_chunk_size |-> asp_stats.total_chunk_size + l,
                         buffer_overflows |-> asp_stats.buffer_overflows + (IF full THEN 1 ELSE 0)]
        /\ asp_appended' = [asp_appended EXCEPT ![s] = Append(@, chunk)]
        /\ asp_result' = [op |-> "add", session |-> s, value |-> TRUE]
  /\ asp_next_id' = asp_next_id + 1

\* get_audio_chunks(session_id, clear_buffer)
get_audio_chunks(s, clear) ==
  /\ IF s \notin DOMAIN asp_audio_buffers
       THEN /\ asp_result' = [op |-> "get", session |-> s, chunks |-> <<>>, appended |-> asp_appended[s]]
            /\ UNCHANGED <<asp_audio_buffers, asp_appended>>
       ELSE /\ asp_result' = [op |-> "get", session |-> s, chunks |-> asp_audio_buffers[s],
                              appended |-> asp_appended[s]]
            /\ asp_audio_buffers' = IF clear THEN [asp_audio_buffers EXCEPT ![s] = <<>>]
                                             ELSE asp_audio_buffers
            /\ asp_appended' = IF clear THEN [asp_appended EXCEPT ![s] = <<>>] ELSE asp_appended
  /\ UNCHANGED <<asp_stats, asp_next_id>>

\* clear_buffer(session_id)
clear_buffer(s) ==
  /\ IF s \in DOMAIN asp_audio_buffers
       THEN /\ asp_audio_buffers' = [asp_audio_buffers EXCEPT ![s] = <<>>]
            /\ asp_appended' = [asp_appended EXCEPT ![s] = <<>>]
            /\ asp_result' = [op |-> "clear", session |-> s, value |-> TRUE]
       ELSE /\ asp_result' = [op |-> "clear", session |-> s, value |-> FALSE]
            /\ UNCHANGED <<asp_audio_buffers, asp_appended>>
  /\ UNCHANGED <<asp_stats, asp_next_id>>

\* cleanup_session(session_id)
cleanup_session(s) ==
  /\ IF s \in DOMAIN asp_audio_buffers
       THEN /\ asp_audio_buffers' = Without(asp_audio_buffers, s)
            /\ asp_appended' = [asp_appended EXCEPT ![s] = <<>>]
            /\ asp_result' = [op |-> "cleanup", session |-> s, value |-> TRUE]
       ELSE /\ asp_result' = [op |-> "cleanup", session |-> s, value |-> FALSE]
            /\ UNCHANGED <<asp_audio_buffers, asp_appended>>
  /\ UNCHANGED <<asp_stats, asp_next_id>>

\* get_buffer_info(session_id)["chunk_count"]
get_buffer_info(s) ==
  IF s \notin DOMAIN asp_audio_buffers
    THEN [session_id |-> s, chunk_count |-> 0, total_size |-> 0, is_full |-> FALSE]
    ELSE [session_id |-> s, chunk_count |-> Len(asp_audio_buffers[s]),
          total_size |-> SumLen(asp_audio_buffers[s]),
          is_full |-> Len(asp_audio_buffers[s]) >= buffer_size]

asp_Next ==
  \/ \E s \in Sessions, l \in ChunkLens : add_audio_chunk(s, l) /\ asp_frame
  \/ \E s \in Sessions, clear \in BOOLEAN : get_audio_chunks(s, clear) /\ asp_frame
  \/ \E s \in Sessions : clear_buffer(s) /\ asp_frame
  \/ \E s \in Sessions : cleanup_session(s) /\ asp_frame

(***************************************************************************)
(* AudioStreamProcessor: the calls as coroutines                           *)
(*                                                                         *)
(* Every method body runs inside `async with self.buffer_lock`. A          *)
(* coroutine that finds the lock held waits for it; between acquiring and  *)
(* releasing, each statement that touches the buffer is a step.            *)
(***************************************************************************)
Coroutines == {"t1", "t2"}
DrainSession == "s1"

drain_Init ==
  /\ drain_audio_buffers = EmptyMap
  /\ drain_lock = "free"
  /\ drain_pc = [t \in Coroutines |-> "idle"]
  /\ drain_chunks = [t \in Coroutines |-> <<>>]
  /\ drain_next_id = 1
  /\ drain_returned = [i \in 1..MaxAppends |-> 0]
  /\ drain_evicted = {}
  /\ drain_removed = {}

\* mutant of LockAcquire: the body is entered whether or not the lock is held
LockAcquire_noLock(t, op) ==
  /\ drain_pc[t] = "idle"
  /\ op = "add" => drain_next_id <= MaxAppends
  /\ drain_lock' = t
  /\ drain_pc' = [drain_pc EXCEPT ![t] = op]
  /\ UNCHANGED <<drain_audio_buffers, drain_chunks, drain_next_id, drain_returned,
                 drain_evicted, drain_removed>>

\* `async with self.buffer_lock:` at the head of add_audio_chunk (line 53),
\* get_audio_chunks (line 98) and cleanup_session (line 265)
LockAcquire(t, op) ==
  /\ drain_pc[t] = "idle"
  /\ drain_lock = "free"
  /\ op = "add" => drain_next_id <= MaxAppends
  /\ drain_lock' = t
  /\ drain_pc' = [drain_pc EXCEPT ![t] = op]
  /\ UNCHANGED <<drain_audio_buffers, drain_chunks, drain_next_id, drain_returned,
                 drain_evicted, drain_removed>>

\* add_audio_chunk, lines 54-79: the body under the lock, then the release
AddUnderLock(t) ==
  /\ drain_pc[t] = "add"
  /\ LET buf == IF DrainSession \in DOMAIN drain_audio_buffers
                  THEN drain_audio_buffers[DrainSession] ELSE <<>>
     IN /\ drain_audio_buffers' =
             With(drain_audio_buffers, DrainSession, BufferAfterAdd(buf, drain_next_id))
        /\ drain_evicted' = IF Len(buf) >= buffer_size
                              THEN drain_evicted \cup {Head(buf)} ELSE drain_evicted
  /\ drain_next_id' = drain_next_id + 1
  /\ drain_lock' = "free"
  /\ drain_pc' = [drain_pc EXCEPT ![t] = "idle"]
  /\ UNCHANGED <<drain_chunks, drain_returned, drain_removed>>

\* get_audio_chunks, lines 99-102: the membership test and the copy
GetCopy(t) ==
  /\ drain_pc[t] = "copy"
  /\ IF DrainSession \notin DOMAIN drain_audio_buffers
       THEN /\ drain_lock' = "free"          \* return []
            /\ drain_pc' = [drain_pc EXCEPT ![t] = "idle"]
            /\ UNCHANGED drain_chunks
       ELSE /\ drain_chunks' = [drain_chunks EXCEPT ![t] = drain_audio_buffers[DrainSession]]
            /\ drain_pc' = [drain_pc EXCEPT ![t] = "clear"]
            /\ UNCHANGED drain_lock
  /\ UNCHANGED <<drain_audio_buffers, drain_next_id, drain_returned, drain_evicted,
                 drain_removed>>

\* get_audio_chunks(session_id, clear_buffer=True), lines 104-107: the clear, the
\* release and the return of the copy
GetClear(t) ==
  /\ drain_pc[t] = "clear"
  /\ drain_audio_buffers' =
       IF DrainSession \in DOMAIN drain_audio_buffers
         THEN [drain_audio_buffers EXCEPT ![DrainSession] = <<>>]
         ELSE drain_audio_buffers            \* KeyError, caught: return []
  /\ drain_returned' =
       IF DrainSession \in DOMAIN drain_audio_buffers
         THEN [i \in DOMAIN drain_returned |->
                 drain_returned[i]
                   + Cardinality({j \in 1..Len(drain_chunks[t]) : drain_chunks[t][j] = i})]
         ELSE drain_returned
  /\ drain_chunks' = [drain_chunks EXCEPT ![t] = <<>>]
  /\ drain_lock' = "free"
  /\ drain_pc' = [drain_pc EXCEPT ![t] = "idle"]
  /\ UNCHANGED <<drain_next_id, drain_evicted, drain_removed>>

\* cleanup_session, lines 266-270: the body under the lock, then the release
CleanupUnderLock(t) ==
  /\ drain_pc[t] = "cleanup"
  /\ IF DrainSession \in DOMAIN drain_audio_buffers
       THEN /\ drain_audio_buffers' = Without(drain_audio_buffers, DrainSession)
            /\ drain_removed' =
                 drain_removed \cup {drain_audio_buffers[DrainSession][j] :
                                       j \in 1..Len(drain_audio_buffers[DrainSession])}
       ELSE UNCHANGED <<drain_audio_buffers, drain_removed>>
  /\ drain_lock' = "free"
  /\ drain_pc' = [drain_pc EXCEPT ![t] = "idle"]
  /\ UNCHANGED <<drain_chunks, drain_next_id, drain_returned, drain_evicted>>

drain_Next ==
  \/ \E t \in Coroutines, op \in {"add", "copy", "cleanup"} : LockAcquire(t, op) /\ drain_frame
  \/ \E t \in Coroutines : AddUnderLock(t) /\ drain_frame
  \/ \E t \in Coroutines : GetCopy(t) /\ drain_frame
  \/ \E t \in Coroutines : GetClear(t) /\ drain_frame
  \/ \E t \in Coroutines : CleanupUnderLock(t) /\ drain_frame

(***************************************************************************)
(* ConnectionManager                                                       *)
(***************************************************************************)
\* total number of add_connection calls explored
MaxConnects == 3

cm_Init ==
  /\ cm = [active_connections |-> {},
           connection_sessions |-> EmptyMap,
           session_connections |-> EmptyMap,
           connection_metadata |-> {},
           stats |-> [total_connections |-> 0, active_connections |-> 0,
                      total_sessions |-> 0, active_sessions |-> 0]]
  /\ cm_transport = [c \in Connections |-> "open"]
  /\ cm_adds = 0
  /\ cm_result = [op |-> "none"]

\* add_connection(websocket, user): connection_id is a fresh uuid4; session_id is a
\* uuid4 too, and lines 77-86 treat both an id that is new and one that is already a
\* key of session_connections, so s ranges over the whole id space.
\* fail: the await / attribute access that raises ("none": the call completes).
add_connection(c, s, fail) ==
  /\ cm_adds < MaxConnects
  /\ c \notin cm.active_connections
  /\ cm_adds' = cm_adds + 1
  /\ cm_transport' = [cm_transport EXCEPT ![c] = "open"]
  /\ \/ /\ fail = "accept"                       \* line 58 raises: nothing was stored
        /\ cm' = cm
        /\ cm_result' = [op |-> "add", raised |-> TRUE]
     \/ /\ fail \in {"none", "metadata"}
        /\ LET known == s \in DOMAIN cm.session_connections
               info  == [session_id |-> s, connection_count |-> 1]
               cs1   == With(cm.connection_sessions, c, info)
               \* lines 83-86: the first existing connection found gets its count incremented
               olds  == IF known THEN cm.session_connections[s] \cap DOMAIN cs1 ELSE {}
           IN \E e \in (IF olds = {} THEN {c} ELSE olds) :
                LET cs2 == IF olds = {} THEN cs1
                           ELSE [cs1 EXCEPT ![e].connection_count = @ + 1]
                    sc2 == With(cm.session_connections, s,
                                (IF known THEN cm.session_connections[s] ELSE {}) \cup {c})
                    st1 == [cm.stats EXCEPT
                              !.total_sessions = @ + (IF known THEN 0 ELSE 1),
                              !.active_sessions = @ + (IF known THEN 0 ELSE 1)]
                IN IF fail = "metadata"
                     THEN \* lines 91-95 raise: registries written, connection counters not
                          /\ cm' = [cm EXCEPT !.active_connections = @ \cup {c},
                                              !.connection_sessions = cs2,
                                              !.session_connections = sc2,
                                              !.stats = st1]
                          /\ cm_result' = [op |-> "add", raised |-> TRUE]
                     ELSE /\ cm' = [active_connections |-> cm.active_connections \cup {c},
                                    connection_sessions |-> cs2,
                                    session_connections |-> sc2,
                                    connection_metadata |-> cm.connection_metadata \cup {c},
                                    stats |-> [st1 EXCEPT !.total_connections = @ + 1,
                                                          !.active_connections = @ + 1]]
                          /\ cm_result' = [op |-> "add", raised |-> FALSE,
                                           connection_id |-> c, session_id |-> s]

\* remove_connection(connection_id) as a function of the manager state:
\* [st |-> the state after the call, ret |-> the session id or "None"]
RemoveConnection(st, c) ==
  IF c \notin st.active_connections
    THEN [st |-> st, ret |-> "None"]
    ELSE LET sid == IF c \in DOMAIN st.connection_sessions
                      THEN st.connection_sessions[c].session_id ELSE "None"
             inSess == sid # "None" /\ sid \in DOMAIN st.session_connections
             left == IF inSess THEN st.session_connections[sid] \ {c} ELSE {}
             sc == IF ~inSess THEN st.session_connections
                   ELSE IF left = {} THEN Without(st.session_connections, sid)
                   ELSE [st.session_connections EXCEPT ![sid] = left]
         IN [st |-> [active_connections |-> st.active_connections \ {c},
                     connection_sessions |-> Without(st.connection_sessions, c),
                     session_connections |-> sc,
                     connection_metadata |-> st.connection_metadata \ {c},
                     stats |-> [st.stats EXCEPT
                                  !.active_sessions = @ - (IF inSess /\ left = {} THEN 1 ELSE 0),
                                  !.active_connections = @ - 1]],
             ret |-> sid]

remove_connection(c) ==
  /\ cm' = RemoveConnection(cm, c).st
  /\ cm_result' = [op |-> "remove", connection_id |-> c, ret |-> RemoveConnection(cm, c).ret]
  /\ UNCHANGED <<cm_transport, cm_adds>>

\* mutant of send_message: the ConnectionClosed handler returns False without
\* calling remove_connection
SendMessage_keepClosed(st, tr, c) ==
  IF c \notin st.active_connections THEN [st |-> st, ok |-> FALSE, removed |-> FALSE]
  ELSE IF tr[c] = "open" THEN [st |-> st, ok |-> TRUE, removed |-> FALSE]
  ELSE [st |-> st, ok |-> FALSE, removed |-> FALSE]

\* send_message(connection_id, message) as a function of the manager state and of
\* what each transport does on send: ok is the return value, removed tells that the
\* ConnectionClosed handler (lines 183-186) ran remove_connection.
SendMessage(st, tr, c) ==
  IF c \notin st.active_connections THEN [st |-> st, ok |-> FALSE, removed |-> FALSE]
  ELSE IF tr[c] = "open" THEN [st |-> st, ok |-> TRUE, removed |-> FALSE]
  ELSE IF tr[c] = "closed" THEN [st |-> RemoveConnection(st, c).st, ok |-> FALSE, removed |-> TRUE]
  ELSE [st |-> st, ok |-> FALSE, removed |-> FALSE]

send_message(c) ==
  /\ cm' = SendMessage(cm, cm_transport, c).st
  /\ cm_result' = [op |-> "send", connection_id |-> c, ok |-> SendMessage(cm, cm_transport, c).ok]
  /\ UNCHANGED <<cm_transport, cm_adds>>

RECURSIVE BroadcastLoop(_, _, _, _, _, _)
\* the for loop of broadcast_to_session (lines 209-211) over the session's set, visited
\* in the order `order`. The set iterator raises RuntimeError at its next step once the
\* set changed size (remove_connection discards from the very set being iterated);
\* the handler of lines 215-216 catches it and the count reached so far is returned.
BroadcastLoop(st, tr, order, i, sent, got) ==
  IF i > Len(order) THEN [st |-> st, sent_count |-> sent, delivered |-> got, aborted |-> FALSE]
  ELSE LET r == SendMessage(st, tr, order[i])
           sent2 == sent + (IF r.ok THEN 1 ELSE 0)
           got2 == IF r.ok THEN got \cup {order[i]} ELSE got
       IN IF r.removed
            THEN [st |-> r.st, sent_count |-> sent2, delivered |-> got2, aborted |-> TRUE]
            ELSE BroadcastLoop(r.st, tr, order, i + 1, sent2, got2)

\* the orders in which a set can be iterated
Orders(S) == {o \in [1..Cardinality(S) -> S] : \A i, j \in 1..Cardinality(S) : i # j => o[i] # o[j]}

\* broadcast_to_session(session_id, message)
broadcast_to_session(s) ==
  /\ IF s \notin DOMAIN cm.session_connections
       THEN /\ cm' = cm
            /\ cm_result' = [op |-> "broadcast", session |-> s, members |-> {},
                             transport |-> cm_transport, sent_count |-> 0, delivered |-> {}]
       ELSE \E order \in Orders(cm.session_connections[s]) :
              LET r == BroadcastLoop(cm, cm_transport, order, 1, 0, {})
              IN /\ cm' = r.st
                 /\ cm_result' = [op |-> "broadcast", session |-> s,
                                  members |-> cm.session_connections[s],
                                  transport |-> cm_transport,
                                  sent_count |-> r.sent_count, delivered |-> r.delivered]
  /\ UNCHANGED <<cm_transport, cm_adds>>

RECURSIVE RemoveAll(_, _)
RemoveAll(st, S) ==
  IF S = {} THEN st
  ELSE LET c == CHOOSE x \in S : TRUE IN RemoveAll(RemoveConnection(st, c).st, S \ {c})

\* cleanup_inactive_connections(timeout): `inactive` are the connections whose
\* last_activity is older than the timeout
cleanup_inactive_connections(inactive) ==
  /\ inactive \subseteq DOMAIN cm.connection_sessions
  /\ cm' = RemoveAll(cm, inactive)
  /\ cm_result' = [op |-> "cleanup_inactive", cleaned_count |-> Cardinality(inactive)]
  /\ UNCHANGED <<cm_transport, cm_adds>>

\* the peer or the network changes what a registered connection's send does
TransportChange(c, status) ==
  /\ c \in cm.active_connections
  /\ cm_transport[c] # status
  /\ cm_transport' = [cm_transport EXCEPT ![c] = status]
  /\ UNCHANGED <<cm, cm_adds, cm_result>>

cm_Next ==
  \/ \E c \in Connections, s \in Sessions, fail \in {"none", "accept", "metadata"} :
        add_connection(c, s, fail) /\ cm_frame
  \/ \E c \in Connections : remove_connection(c) /\ cm_frame
  \/ \E c \in Connections : send_message(c) /\ cm_frame
  \/ \E s \in Sessions : broadcast_to_session(s) /\ cm_frame
  \/ \E inactive \in SUBSET Connections :
        cleanup_inactive_connections(inactive) /\ cm_frame
  \/ \E c \in Connections, status \in {"open", "closed", "error"} :
        TransportChange(c, status) /\ cm_frame

(***************************************************************************)
(* Transcription engine: OpenAIWhisperService.transcribe_audio_bytes       *)
(***************************************************************************)
\* texts are sequences of character codes (so that they can be encoded)
TextHello == <<104, 105>>          \* "hi"
TextApiError == <<101, 114, 114>>  \* str(e) of the exception the API call raised
LangEn == <<101, 110>>             \* "en"

\* what lies behind the call: "mock" (the service has no client and answers with a
\* canned sentence), or the API answers with a text, with a blank text, or raises
ApiOutcomes == {"mock", "text", "blank", "raise"}

\* mutant of transcribe_audio_bytes: the exception of the API call is not caught
transcribe_audio_bytes_propagates(api) ==
  CASE api = "mock"  -> [raised |-> FALSE, text |-> TextHello, confidence |-> 90, has_error |-> FALSE]
    [] api = "text"  -> [raised |-> FALSE, text |-> TextHello, confidence |-> 90, has_error |-> FALSE]
    [] api = "blank" -> [raised |-> FALSE, text |-> <<>>, confidence |-> 0, has_error |-> FALSE]
    [] api = "raise" -> [raised |-> TRUE, text |-> <<>>, confidence |-> 0, has_error |-> TRUE]

\* transcribe_audio_bytes(audio_bytes, language): the result dict; has_error tells
\* whether it has the key "error". confidence is in hundredths (0.9 if text else 0.0).
\* An exception of the API call is caught (lines 100-108) and becomes an error result.
transcribe_audio_bytes(api) ==
  CASE api = "mock"  -> [raised |-> FALSE, text |-> TextHello, confidence |-> 90, has_error |-> FALSE]
    [] api = "text"  -> [raised |-> FALSE, text |-> TextHello, confidence |-> 90, has_error |-> FALSE]
    [] api = "blank" -> [raised |-> FALSE, text |-> <<>>, confidence |-> 0, has_error |-> FALSE]
    [] api = "raise" -> [raised |-> FALSE, text |-> <<>>, confidence |-> 0, has_error |-> TRUE]

\* length of a model's history deque (deque(maxlen=1000) in the code, scaled down)
history_maxlen == 6

\* self.performance_history[model_name].append(metrics) (line 124): the deque drops its
\* oldest entry when it is full
StoreMetrics(history, model_name, metrics) ==
  With(history, model_name,
       LastN(Append(IF model_name \in DOMAIN history THEN history[model_name] ELSE <<>>,
                    metrics),
             history_maxlen))

\* record_model_performance(model_name, accuracy, confidence, processing_time,
\* error_occurred) as the services call it: accuracy is the confidence, and the
\* measured processing_time is left out (0). confidence and error_rate in hundredths.
record_model_performance(history, model_name, confidence, error_occurred) ==
  StoreMetrics(history, model_name,
               [accuracy |-> confidence, confidence |-> confidence, processing_time |-> 0,
                error_rate |-> IF error_occurred THEN 100 ELSE 0])

(***************************************************************************)
(* ModelMonitoringService: drift check and baseline                        *)
(*                                                                         *)
(* The monitor thread runs _check_model_drift, then                        *)
(* _update_baseline_metrics, then sleeps; samples are recorded from other  *)
(* threads at any point between the two calls. Averages and drift          *)
(* fractions are exact fractions [num, den] in lowest terms, so two        *)
(* averages are equal exactly when the records are equal. Of the averages  *)
(* of _calculate_metrics_average those of the four metrics that have a     *)
(* drift threshold are kept. Metric values are not negative.               *)
(***************************************************************************)
RECURSIVE GCD(_, _)
GCD(a, b) == IF b = 0 THEN a ELSE GCD(b, a % b)

\* the fraction n / d (d > 0) in lowest terms
Frac(n, d) == LET g == GCD(IF n < 0 THEN 0 - n ELSE n, d) IN [num |-> n \div g, den |-> d \div g]
FracGT(x, y) == x.num * y.den > y.num * x.den
FracGE(x, y) == x.num * y.den >= y.num * x.den
FracMul(x, n, d) == Frac(x.num * n, x.den * d)

\* len(history) < 10 (line 158), scaled down
min_data_points == 2
\* len(history) < 50 (line 275), scaled down
baseline_min_points == 3
\* list(history)[-100:] (line 162), scaled down
recent_points == 4
\* list(history)[-200:] (line 279), scaled down
baseline_points == 5
\* deque(maxlen=100) of alert_history (line 63), scaled down
alert_maxlen == 3
\* total number of samples recorded
MaxRecords == 6

\* self.drift_thresholds (lines 57-62), in the order the dict is iterated
DriftMetrics == <<"accuracy", "confidence", "processing_time", "error_rate">>
drift_thresholds ==
  [accuracy |-> Frac(5, 100), confidence |-> Frac(10, 100),
   processing_time |-> Frac(20, 100), error_rate |-> Frac(15, 100)]

\* the model names that samples are recorded for, in the order of their first sample
\* (a dict is iterated in insertion order)
ModelNames == <<"whisper">>
ModelOrder(history) == SelectSeq(ModelNames, LAMBDA m : m \in DOMAIN history)

\* samples a caller records: accuracy, confidence and error_rate in hundredths,
\* processing_time in hundredths of a second
MetricSamples ==
  {[accuracy |-> 90, confidence |-> 90, processing_time |-> 10, error_rate |-> 0],
   [accuracy |-> 70, confidence |-> 70, processing_time |-> 16, error_rate |-> 0],
   [accuracy |-> 0, confidence |-> 0, processing_time |-> 10, error_rate |-> 100]}

RECURSIVE SumOf(_, _)
SumOf(metrics_list, f) ==
  IF metrics_list = <<>> THEN 0 ELSE Head(metrics_list)[f] + SumOf(Tail(metrics_list), f)

\* _calculate_metrics_average(metrics_list) of a list that is not empty: np.mean of
\* each metric, in hundredths
calculate_metrics_average(metrics_list) ==
  [f \in {"accuracy", "confidence", "processing_time", "error_rate"} |->
     Frac(SumOf(metrics_list, f), Len(metrics_list))]

\* _determine_severity(drift_percentage, threshold)
determine_severity(drift_percentage, threshold) ==
  IF FracGT(drift_percentage, FracMul(threshold, 3, 1)) THEN "critical"
  ELSE IF FracGT(drift_percentage, FracMul(threshold, 2, 1)) THEN "high"
  ELSE IF FracGT(drift_percentage, FracMul(threshold, 3, 2)) THEN "medium"
  ELSE "low"

\* mutant of the drift fraction: confidence and accuracy are treated like
\* processing_time (an increase counts as drift)
DriftPercentage_sameSign(metric_name, current_value, baseline_value) ==
  Frac(current_value.num * baseline_value.den - baseline_value.num * current_value.den,
       baseline_value.num * current_value.den)

\* lines 183-189: the drift fraction of a metric whose baseline is not zero
DriftPercentage(metric_name, current_value, baseline_value) ==
  IF metric_name \in {"processing_time", "error_rate"}
    THEN Frac(current_value.num * baseline_value.den - baseline_value.num * current_value.den,
              baseline_value.num * current_value.den)
    ELSE Frac(baseline_value.num * current_value.den - current_value.num * baseline_value.den,
              baseline_value.num * current_value.den)

RECURSIVE MetricAlerts(_, _, _, _)
\* mutant of MetricAlerts: a metric whose baseline is zero is not skipped, any value
\* above zero counting as a drift beyond every threshold
MetricAlerts_zeroBaselineAlerts(model_name, current_metrics, baseline, i) ==
  IF i > Len(DriftMetrics) THEN <<>>
  ELSE LET metric_name == DriftMetrics[i]
           threshold == drift_thresholds[metric_name]
           current_value == current_metrics[metric_name]
           baseline_value == baseline[metric_name]
           rest == MetricAlerts(model_name, current_metrics, baseline, i + 1)
       IN IF baseline_value.num = 0
            THEN IF current_value.num > 0
                   THEN <<[model_name |-> model_name, metric_name |-> metric_name,
                           current_value |-> current_value, baseline_value |-> baseline_value,
                           drift_percentage |-> current_value, severity |-> "critical"]>>
                        \o rest
                   ELSE rest
          ELSE LET drift_percentage == DriftPercentage(metric_name, current_value, baseline_value)
               IN IF FracGT(drift_percentage, threshold)
                    THEN <<[model_name |-> model_name, metric_name |-> metric_name,
                            current_value |-> current_value, baseline_value |-> baseline_value,
                            drift_percentage |-> drift_percentage,
                            severity |-> determine_severity(drift_percentage, threshold)]>>
                         \o rest
                    ELSE rest

\* the loop of lines 176-206 over drift_thresholds, from its i-th item on: the alerts
\* it appends
MetricAlerts(model_name, current_metrics, baseline, i) ==
  IF i > Len(DriftMetrics) THEN <<>>
  ELSE LET metric_name == DriftMetrics[i]
           threshold == drift_thresholds[metric_name]
           current_value == current_metrics[metric_name]
           baseline_value == baseline[metric_name]
           rest == MetricAlerts(model_name, current_metrics, baseline, i + 1)
       IN IF baseline_value.num = 0 THEN rest
          ELSE LET drift_percentage == DriftPercentage(metric_name, current_value, baseline_value)
               IN IF FracGT(drift_percentage, threshold)
                    THEN <<[model_name |-> model_name, metric_name |-> metric_name,
                            current_value |-> current_value, baseline_value |-> baseline_value,
                            drift_percentage |-> drift_percentage,
                            severity |-> determine_severity(drift_percentage, threshold)]>>
                         \o rest
                    ELSE rest

RECURSIVE CheckModels(_, _, _)
\* the loop of lines 157-206 over performance_history.items(); st carries
\* baseline_metrics, the alerts appended so far, and for the record: the models that
\* got their first baseline (bootstrapped), the window average of each model looked at
\* (current) and the baseline each compared model was compared with (compared)
CheckModels(history, order, st) ==
  IF order = <<>> THEN st
  ELSE LET model_name == Head(order)
           h == history[model_name]
           current_metrics == calculate_metrics_average(LastN(h, recent_points))
       IN IF Len(h) < min_data_points THEN CheckModels(history, Tail(order), st)
          ELSE IF model_name \notin DOMAIN st.baseline_metrics
            THEN CheckModels(history, Tail(order),
                   [st EXCEPT !.baseline_metrics = With(@, model_name, current_metrics),
                              !.bootstrapped = @ \cup {model_name},
                              !.current = With(@, model_name, current_metrics)])
            ELSE CheckModels(history, Tail(order),
                   [st EXCEPT !.alerts = @ \o MetricAlerts(model_name, current_metrics,
                                                            st.baseline_metrics[model_name], 1),
                              !.compared = With(@, model_name, st.baseline_metrics[model_name]),
                              !.current = With(@, model_name, current_metrics)])

NoCheck == [lens |-> EmptyMap, alerts |-> <<>>, bootstrapped |-> {}, current |-> EmptyMap,
            compared |-> EmptyMap]

mms_Init ==
  /\ mms_baseline_metrics = EmptyMap
  /\ mms_alert_history = <<>>
  /\ mms_pc = "check"
  /\ mms_records = 0
  /\ mms_check = NoCheck
  /\ mms_baseline_len = EmptyMap
  /\ sev_call = [op |-> "none"]

\* a caller records a sample (record_model_performance, line 124)
RecordPerformance(model_name, metrics) ==
  /\ mms_records < MaxRecords
  /\ mms_records' = mms_records + 1
  /\ mon_performance_history' = StoreMetrics(mon_performance_history, model_name, metrics)
  /\ UNCHANGED <<mms_baseline_metrics, mms_alert_history, mms_pc, mms_check, mms_baseline_len,
                 sev_call>>

\* _check_model_drift()
check_model_drift ==
  /\ mms_pc = "check"
  /\ mms_pc' = "update"
  /\ LET history == mon_performance_history
         r == CheckModels(history, ModelOrder(history),
                          [baseline_metrics |-> mms_baseline_metrics, alerts |-> <<>>,
                           bootstrapped |-> {}, current |-> EmptyMap, compared |-> EmptyMap])
     IN /\ mms_baseline_metrics' = r.baseline_metrics
        /\ mms_alert_history' = LastN(mms_alert_history \o r.alerts, alert_maxlen)
        /\ mms_check' = [lens |-> [m \in DOMAIN history |-> Len(history[m])],
                         alerts |-> r.alerts, bootstrapped |-> r.bootstrapped,
                         current |-> r.current, compared |-> r.compared]
        /\ mms_baseline_len' = [m \in DOMAIN r.baseline_metrics |->
                                  IF m \in r.bootstrapped THEN Len(history[m])
                                  ELSE mms_baseline_len[m]]
  /\ UNCHANGED <<mon_performance_history, mms_records, sev_call>>

\* mutant of _update_baseline_metrics: the test of line 275 is missing
update_baseline_metrics_noMinimum ==
  /\ mms_pc = "update"
  /\ mms_pc' = "check"
  /\ LET history == mon_performance_history
     IN /\ mms_baseline_metrics' =
             [m \in DOMAIN mms_baseline_metrics \cup DOMAIN history |->
                IF m \in DOMAIN history
                  THEN calculate_metrics_average(LastN(history[m], baseline_points))
                  ELSE mms_baseline_metrics[m]]
        /\ mms_baseline_len' =
             [m \in DOMAIN mms_baseline_metrics \cup DOMAIN history |->
                IF m \in DOMAIN history THEN Len(history[m]) ELSE mms_baseline_len[m]]
  /\ UNCHANGED <<mon_performance_history, mms_alert_history, mms_records, mms_check, sev_call>>

\* _update_baseline_metrics(), after which the thread sleeps and starts over
update_baseline_metrics ==
  /\ mms_pc = "update"
  /\ mms_pc' = "check"
  /\ LET history == mon_performance_history
         updated == {m \in DOMAIN history : Len(history[m]) >= baseline_min_points}
     IN /\ mms_baseline_metrics' =
             [m \in DOMAIN mms_baseline_metrics \cup updated |->
                IF m \in updated
                  THEN calculate_metrics_average(LastN(history[m], baseline_points))
                  ELSE mms_baseline_metrics[m]]
        /\ mms_baseline_len' =
             [m \in DOMAIN mms_baseline_metrics \cup updated |->
                IF m \in updated THEN Len(history[m]) ELSE mms_baseline_len[m]]
  /\ UNCHANGED <<mon_performance_history, mms_alert_history, mms_records, mms_check, sev_call>>

mms_Next ==
  \/ \E i \in 1..Len(ModelNames), x \in MetricSamples :
        RecordPerformance(ModelNames[i], x) /\ mms_frame
  \/ check_model_drift /\ mms_frame
  \/ update_baseline_metrics /\ mms_frame

\* largest drift fraction handed to _determine_severity, in two-hundredths (0.005)
MaxDrift == 140

\* a call of _determine_severity(drift_percentage, threshold) with the threshold of a
\* metric and a drift fraction of d two-hundredths
determine_severity_call(d, metric_name) ==
  /\ sev_call' = [op |-> "severity", drift_percentage |-> Frac(d, 200),
                  threshold |-> drift_thresholds[metric_name],
                  severity |-> determine_severity(Frac(d, 200), drift_thresholds[metric_name])]
  /\ UNCHANGED <<mon_performance_history, mms_baseline_metrics, mms_alert_history, mms_pc,
                 mms_records, mms_check, mms_baseline_len>>

sev_Next ==
  \E d \in 0..MaxDrift, metric_name \in DOMAIN drift_thresholds :
    determine_severity_call(d, metric_name) /\ mms_frame

(***************************************************************************)
(* ModelMonitoringService: the monitor thread and exceptions in its cycle  *)
(*                                                                         *)
(* monitor_models (lines 72-80): while monitoring_active, call             *)
(* _check_model_drift, _update_baseline_metrics, sleep. Both calls catch   *)
(* every Exception themselves (lines 208-209, 284-285); what could escape  *)
(* them is caught by lines 78-80, after which the loop goes on as well.    *)
(* An exception comes from the iteration of performance_history or of a    *)
(* history while another thread records: the loop over the models stops    *)
(* after the k models it has handled.                                      *)
(***************************************************************************)
cycle_Init ==
  /\ mms_active = TRUE
  /\ mms_cycle = 0
  /\ mms_failed = FALSE

\* mutant of the monitor's drift check: the exception is not caught, the thread ends
MonitorCheck_dies(k, raises) ==
  /\ mms_active
  /\ mms_pc = "check"
  /\ mms_cycle' = 1 - mms_cycle
  /\ mms_failed' = raises
  /\ mms_pc' = IF raises THEN "stopped" ELSE "update"
  /\ \E history \in {mon_performance_history} :
     \E r \in {CheckModels(history, SubSeq(ModelOrder(history), 1, k),
                           [baseline_metrics |-> mms_baseline_metrics, alerts |-> <<>>,
                            bootstrapped |-> {}, current |-> EmptyMap, compared |-> EmptyMap])} :
        /\ mms_baseline_metrics' = r.baseline_metrics
        /\ mms_alert_history' = LastN(mms_alert_history \o r.alerts, alert_maxlen)
        /\ mms_check' = [lens |-> [m \in DOMAIN history |-> Len(history[m])],
                         alerts |-> r.alerts, bootstrapped |-> r.bootstrapped,
                         current |-> r.current, compared |-> r.compared]
        /\ mms_baseline_len' = [m \in DOMAIN r.baseline_metrics |->
                                  IF m \in r.bootstrapped THEN Len(history[m])
                                  ELSE mms_baseline_len[m]]
  /\ UNCHANGED <<mon_performance_history, mms_records, sev_call, mms_active>>

\* the thread passes the loop test (line 73) and calls _check_model_drift(), which
\* handles its first k models; with raises, an exception ends the loop over the models
\* there and is caught (lines 208-209)
MonitorCheck(k, raises) ==
  /\ mms_active
  /\ mms_pc = "check"
  /\ mms_cycle' = 1 - mms_cycle
  /\ mms_failed' = raises
  /\ mms_pc' = "update"
  /\ \E history \in {mon_performance_history} :
     \E r \in {CheckModels(history, SubSeq(ModelOrder(history), 1, k),
                           [baseline_metrics |-> mms_baseline_metrics, alerts |-> <<>>,
                            bootstrapped |-> {}, current |-> EmptyMap, compared |-> EmptyMap])} :
        /\ mms_baseline_metrics' = r.baseline_metrics
        /\ mms_alert_history' = LastN(mms_alert_history \o r.alerts, alert_maxlen)
        /\ mms_check' = [lens |-> [m \in DOMAIN history |-> Len(history[m])],
                         alerts |-> r.alerts, bootstrapped |-> r.bootstrapped,
                         current |-> r.current, compared |-> r.compared]
        /\ mms_baseline_len' = [m \in DOMAIN r.baseline_metrics |->
                                  IF m \in r.bootstrapped THEN Len(history[m])
                                  ELSE mms_baseline_len[m]]
  /\ UNCHANGED <<mon_performance_history, mms_records, sev_call, mms_active>>

\* _update_baseline_metrics(), which handles its first k models (with raises, an
\* exception ends its loop there and is caught, lines 284-285), then the sleep
MonitorUpdate(k, raises) ==
  /\ mms_pc = "update"
  /\ mms_pc' = "check"
  /\ mms_failed' = (mms_failed \/ raises)
  /\ LET history == mon_performance_history
         order == SubSeq(ModelOrder(history), 1, k)
         updated == {m \in {order[i] : i \in 1..Len(order)} :
                       Len(history[m]) >= baseline_min_points}
     IN /\ mms_baseline_metrics' =
             [m \in DOMAIN mms_baseline_metrics \cup updated |->
                IF m \in updated
                  THEN calculate_metrics_average(LastN(history[m], baseline_points))
                  ELSE mms_baseline_metrics[m]]
        /\ mms_baseline_len' =
             [m \in DOMAIN mms_baseline_metrics \cup updated |->
                IF m \in updated THEN Len(history[m]) ELSE mms_baseline_len[m]]
  /\ UNCHANGED <<mon_performance_history, mms_alert_history, mms_records, mms_check, sev_call,
                 mms_active, mms_cycle>>

\* the loop test fails (line 73): the thread ends
MonitorExit ==
  /\ ~mms_active
  /\ mms_pc = "check"
  /\ mms_pc' = "stopped"
  /\ UNCHANGED <<mon_performance_history, mms_baseline_metrics, mms_alert_history, mms_records,
                 mms_check, mms_baseline_len, sev_call, mms_active, mms_cycle, mms_failed>>

\* stop_monitoring()
stop_monitoring ==
  /\ mms_active
  /\ mms_active' = FALSE
  /\ UNCHANGED <<mon_performance_history, mms_baseline_metrics, mms_alert_history, mms_pc,
                 mms_records, mms_check, mms_baseline_len, sev_call, mms_cycle, mms_failed>>

\* how many models a loop of the cycle handles: all of them, or the first k when it
\* is cut short
HandledModels(raises) ==
  IF raises THEN 0..Len(ModelOrder(mon_performance_history))
  ELSE {Len(ModelOrder(mon_performance_history))}

\* the samples recorded while the thread is followed: successful transcriptions
CycleSamples == {x \in MetricSamples : x.error_rate = 0 /\ x.confidence = 90}

cycle_Next ==
  \/ \E i \in 1..Len(ModelNames), x \in CycleSamples :
        RecordPerformance(ModelNames[i], x) /\ UNCHANGED cycle_vars /\ cycle_frame
  \/ \E raises \in BOOLEAN : \E k \in HandledModels(raises) :
        MonitorCheck(k, raises) /\ cycle_frame
  \/ \E raises \in BOOLEAN : \E k \in HandledModels(raises) :
        MonitorUpdate(k, raises) /\ cycle_frame
  \/ MonitorExit /\ cycle_frame
  \/ stop_monitoring /\ cycle_frame

(***************************************************************************)
(* ModelMonitoringService.get_model_health_status                          *)
(*                                                                         *)
(* A function of alert_history, of the keys of performance_history and of  *)
(* the clock. Times are in minutes; an alert is kept with its model name,  *)
(* severity and timestamp.                                                 *)
(***************************************************************************)
\* the clock reading of the call (datetime.utcnow())
HealthNow == 120
\* number of alerts in the alert history
MaxHealthAlerts == 3

HealthModels == {"whisper", "whisper_realtime"}
Severities == {"low", "medium", "high", "critical"}
\* ages of the alerts: within the last hour, just within, just beyond
AlertAges == {1, 59, 61}
HealthAlerts ==
  [model_name : HealthModels, severity : Severities,
   timestamp : {HealthNow - age : age \in AlertAges}]

\* timedelta(hours=1), in minutes
OneHour == 60

\* the status of one model from its recent alerts (lines 410-417)
StatusOfAlerts(recent_alerts) ==
  IF \E i \in 1..Len(recent_alerts) : recent_alerts[i].severity = "critical" THEN "critical"
  ELSE IF \E i \in 1..Len(recent_alerts) : recent_alerts[i].severity = "high" THEN "warning"
  ELSE IF \E i \in 1..Len(recent_alerts) : recent_alerts[i].severity \in {"medium", "low"}
    THEN "degraded"
  ELSE "healthy"

\* mutant of get_model_health_status: the age of an alert is not looked at
get_model_health_status_anyAge(alert_history, tracked, now) ==
  LET models == [m \in tracked |->
                   LET recent_alerts == SelectSeq(alert_history, LAMBDA a : a.model_name = m)
                   IN [status |-> StatusOfAlerts(recent_alerts),
                       recent_alerts |-> Len(recent_alerts)]]
      model_statuses == {models[m].status : m \in tracked}
  IN [overall_status |-> IF "critical" \in model_statuses THEN "critical"
                         ELSE IF "warning" \in model_statuses THEN "warning"
                         ELSE IF "degraded" \in model_statuses THEN "degraded"
                         ELSE "healthy",
      models |-> models,
      total_alerts |-> Len(alert_history),
      critical_alerts |-> Len(SelectSeq(alert_history, LAMBDA a : a.severity = "critical"))]

\* get_model_health_status(): tracked are the keys of performance_history
get_model_health_status(alert_history, tracked, now) ==
  LET models == [m \in tracked |->
                   LET recent_alerts ==
                         SelectSeq(alert_history,
                                   LAMBDA a : a.model_name = m /\ a.timestamp > now - OneHour)
                   IN [status |-> StatusOfAlerts(recent_alerts),
                       recent_alerts |-> Len(recent_alerts)]]
      model_statuses == {models[m].status : m \in tracked}
  IN [overall_status |-> IF "critical" \in model_statuses THEN "critical"
                         ELSE IF "warning" \in model_statuses THEN "warning"
                         ELSE IF "degraded" \in model_statuses THEN "degraded"
                         ELSE "healthy",
      models |-> models,
      total_alerts |-> Len(alert_history),
      critical_alerts |-> Len(SelectSeq(alert_history, LAMBDA a : a.severity = "critical"))]

health_Init ==
  /\ health_alert_history = <<>>
  /\ health_tracked = {}
  /\ health_call = [op |-> "none"]

\* a first sample is recorded for a model: it becomes a key of performance_history
HealthTrack(m) ==
  /\ m \notin health_tracked
  /\ health_tracked' = health_tracked \cup {m}
  /\ health_call' = [op |-> "none"]
  /\ UNCHANGED health_alert_history

\* the monitor appends an alert of a tracked model (line 205); alerts are appended in
\* the order of their timestamps
HealthAlert(alert) ==
  /\ Len(health_alert_history) < MaxHealthAlerts
  /\ alert.model_name \in health_tracked
  /\ health_alert_history # <<>> =>
       health_alert_history[Len(health_alert_history)].timestamp <= alert.timestamp
  /\ health_alert_history' = Append(health_alert_history, alert)
  /\ health_call' = [op |-> "none"]
  /\ UNCHANGED health_tracked

\* a request handler calls get_model_health_status()
health_status_call ==
  /\ health_call' = [op |-> "health", alert_history |-> health_alert_history,
                     tracked |-> health_tracked, now |-> HealthNow,
                     ret |-> get_model_health_status(health_alert_history, health_tracked,
                                                     HealthNow)]
  /\ UNCHANGED <<health_alert_history, health_tracked>>

health_Next ==
  \/ \E m \in HealthModels : HealthTrack(m) /\ health_frame
  \/ \E alert \in HealthAlerts : HealthAlert(alert) /\ health_frame
  \/ health_status_call /\ health_frame

(***************************************************************************)
(* ModelMonitoringService: the monitor thread and the recording threads    *)
(*                                                                         *)
(* monitor_models runs in a threading.Thread of its own; the callers of    *)
(* record_model_performance run in other threads. The class has no lock.   *)
(* A step is what one thread does without an interpreter switch mattering: *)
(* one append, or one turn of the for loop over performance_history.items()*)
(* whose iterator raises RuntimeError when the dict changed size.          *)
(***************************************************************************)
\* number of record_model_performance calls explored
MaxThreadRecords == 4

thread_Init ==
  /\ thr_performance_history = EmptyMap
  /\ thr_keys = <<>>
  /\ thr_pc = "sleep"
  /\ thr_iter = [pos |-> 0, size |-> 0]
  /\ thr_evaluated = {}
  /\ thr_interleaved = FALSE
  /\ thr_error = FALSE
  /\ thr_records = 0

\* record_model_performance, line 119: performance_history[model_name].append(metrics),
\* the defaultdict inserting the key of a model not seen before
ThreadRecord(m) ==
  /\ thr_records < MaxThreadRecords
  /\ thr_records' = thr_records + 1
  /\ thr_performance_history' =
       IF m \in DOMAIN thr_performance_history
         THEN [thr_performance_history EXCEPT ![m] = Min(@ + 1, history_maxlen)]
         ELSE With(thr_performance_history, m, 1)
  /\ thr_keys' = IF m \in DOMAIN thr_performance_history THEN thr_keys ELSE Append(thr_keys, m)
  /\ thr_interleaved' = (thr_interleaved \/ thr_pc = "iterating")
  /\ UNCHANGED <<thr_pc, thr_iter, thr_evaluated, thr_error>>

\* _check_model_drift, line 157: the for statement creates the iterator of
\* performance_history.items()
ThreadCheckBegin ==
  /\ thr_pc \in {"sleep", "done"}
  /\ thr_pc' = "iterating"
  /\ thr_iter' = [pos |-> 0, size |-> Len(thr_keys)]
  /\ thr_evaluated' = {}
  /\ thr_interleaved' = FALSE
  /\ thr_error' = FALSE
  /\ UNCHANGED <<thr_performance_history, thr_keys, thr_records>>

\* one turn of the loop (lines 157-206): the iterator yields the next model, which the
\* body evaluates; or it is exhausted; or the dict changed size since the loop began,
\* and it raises RuntimeError, which line 208 catches
ThreadCheckNext ==
  /\ thr_pc = "iterating"
  /\ IF Len(thr_keys) # thr_iter.size
       THEN /\ thr_pc' = "done"
            /\ thr_error' = TRUE
            /\ UNCHANGED <<thr_iter, thr_evaluated>>
       ELSE IF thr_iter.pos = Len(thr_keys)
         THEN /\ thr_pc' = "done"
              /\ UNCHANGED <<thr_iter, thr_evaluated, thr_error>>
         ELSE /\ thr_iter' = [thr_iter EXCEPT !.pos = @ + 1]
              /\ thr_evaluated' = thr_evaluated \cup {thr_keys[thr_iter.pos + 1]}
              /\ UNCHANGED <<thr_pc, thr_error>>
  /\ UNCHANGED <<thr_performance_history, thr_keys, thr_interleaved, thr_records>>

thread_Next ==
  \/ \E m \in HealthModels : ThreadRecord(m) /\ thread_frame
  \/ ThreadCheckBegin /\ thread_frame
  \/ ThreadCheckNext /\ thread_frame

(***************************************************************************)
(* Avro binary encoding used by KafkaStreamService                         *)
(***************************************************************************)
AUDIO_CHUNK_SCHEMA ==
  << <<"session_id", "string">>, <<"user_id", "string">>, <<"chunk_id", "string">>,
     <<"audio_data", "bytes">>, <<"sample_rate", "int">>, <<"channels", "int">>,
     <<"format", "string">>, <<"timestamp", "long">>, <<"language", "string">>,
     <<"chunk_index", "int">>, <<"is_final", "boolean">> >>

TRANSCRIPTION_RESULT_SCHEMA ==
  << <<"session_id", "string">>, <<"user_id", "string">>, <<"chunk_id", "string">>,
     <<"text", "string">>, <<"confidence", "float">>, <<"language", "string">>,
     <<"timestamp", "long">>, <<"processing_time", "float">>, <<"model_name", "string">>,
     <<"status", "string">>, <<"error_message", "null_or_string">> >>

RECURSIVE Varint(_)
\* base-128 little-endian groups, the high bit set on all but the last
Varint(z) == IF z < 128 THEN <<z>> ELSE <<(z % 128) + 128>> \o Varint(z \div 128)

ZigZag(n) == IF n >= 0 THEN 2 * n ELSE -2 * n - 1
UnZigZag(z) == IF z % 2 = 0 THEN z \div 2 ELSE -((z + 1) \div 2)

\* a float is written as 4 bytes; the model writes the 4 little-endian bytes of the
\* value in hundredths in place of its IEEE-754 pattern
write_float(h) == <<h % 256, (h \div 256) % 256, (h \div 65536) % 256, 0>>

\* BinaryEncoder: one datum of the given schema type
WriteDatum(type, v) ==
  CASE type \in {"int", "long"} -> Varint(ZigZag(v))
    [] type \in {"string", "bytes"} -> Varint(ZigZag(Len(v))) \o v
    [] type = "boolean" -> <<IF v THEN 1 ELSE 0>>
    [] type = "float" -> write_float(v)
    [] type = "null_or_string" ->
         IF v.isnull THEN Varint(ZigZag(0)) ELSE Varint(ZigZag(1)) \o Varint(ZigZag(Len(v.value))) \o v.value

RECURSIVE WriteRecord(_, _, _)
\* DatumWriter.write of a record: its fields in schema order, from field i on
WriteRecord(schema, data, i) ==
  IF i > Len(schema) THEN <<>>
  ELSE WriteDatum(schema[i][2], data[schema[i][1]]) \o WriteRecord(schema, data, i + 1)

RECURSIVE ReadVarint(_, _, _, _)
\* [ok, val, pos]: the varint that starts at b[pos]; not ok when the bytes run out
ReadVarint(b, pos, mult, acc) ==
  IF pos > Len(b) THEN [ok |-> FALSE, val |-> 0, pos |-> pos]
  ELSE IF b[pos] < 128 THEN [ok |-> TRUE, val |-> acc + b[pos] * mult, pos |-> pos + 1]
  ELSE ReadVarint(b, pos + 1, mult * 128, acc + (b[pos] - 128) * mult)

\* BinaryDecoder: one datum of the given schema type starting at b[pos]
ReadDatum(type, b, pos) ==
  LET n == ReadVarint(b, pos, 1, 0)
      len == UnZigZag(n.val)
  IN CASE type \in {"int", "long"} -> [ok |-> n.ok, val |-> UnZigZag(n.val), pos |-> n.pos]
       [] type \in {"string", "bytes"} ->
            IF n.ok /\ len >= 0 /\ n.pos + len - 1 <= Len(b)
              THEN [ok |-> TRUE, val |-> SubSeq(b, n.pos, n.pos + len - 1), pos |-> n.pos + len]
              ELSE [ok |-> FALSE, val |-> <<>>, pos |-> pos]
       [] type = "boolean" ->
            IF pos <= Len(b) THEN [ok |-> TRUE, val |-> b[pos] = 1, pos |-> pos + 1]
                             ELSE [ok |-> FALSE, val |-> FALSE, pos |-> pos]
       [] type = "float" ->
            IF pos + 3 <= Len(b)
              THEN [ok |-> TRUE, val |-> b[pos] + 256 * b[pos + 1] + 65536 * b[pos + 2], pos |-> pos + 4]
              ELSE [ok |-> FALSE, val |-> 0, pos |-> pos]
       [] type = "null_or_string" ->
            IF ~n.ok THEN [ok |-> FALSE, val |-> [isnull |-> TRUE], pos |-> pos]
            ELSE IF UnZigZag(n.val) = 0 THEN [ok |-> TRUE, val |-> [isnull |-> TRUE], pos |-> n.pos]
            ELSE LET m == ReadVarint(b, n.pos, 1, 0)
                     l2 == UnZigZag(m.val)
                 IN IF m.ok /\ l2 >= 0 /\ m.pos + l2 - 1 <= Len(b)
                      THEN [ok |-> TRUE, val |-> [isnull |-> FALSE, value |-> SubSeq(b, m.pos, m.pos + l2 - 1)],
                            pos |-> m.pos + l2]
                      ELSE [ok |-> FALSE, val |-> [isnull |-> TRUE], pos |-> pos]

RECURSIVE ReadRecord(_, _, _, _, _)
\* DatumReader.read of a record: [ok, val]; val maps the field names read so far
ReadRecord(schema, b, pos, i, acc) ==
  IF i > Len(schema) THEN [ok |-> TRUE, val |-> acc]
  ELSE LET d == ReadDatum(schema[i][2], b, pos)
       IN IF ~d.ok THEN [ok |-> FALSE, val |-> acc]
          ELSE ReadRecord(schema, b, d.pos, i + 1, (schema[i][1] :> d.val) @@ acc)

\* a value handed to a serializer is a dict ([kind |-> "dict", ...fields]) or a bytes
\* object ([kind |-> "bytes", value |-> ...])
EmptyDict == [kind |-> "empty"]

\* _serialize_audio_chunk(data): the Avro bytes of the record; DatumWriter.write
\* raises on a datum that is no record of the schema, and the handler returns b""
serialize_audio_chunk(data) ==
  IF data.kind = "dict" /\ \A i \in 1..Len(AUDIO_CHUNK_SCHEMA) : AUDIO_CHUNK_SCHEMA[i][1] \in DOMAIN data
    THEN WriteRecord(AUDIO_CHUNK_SCHEMA, data, 1)
    ELSE <<>>

\* _deserialize_audio_chunk(data): dict(result), or {} when the reader raises
deserialize_audio_chunk(b) ==
  LET r == ReadRecord(AUDIO_CHUNK_SCHEMA, b, 1, 1, [kind |-> "dict"])
  IN IF r.ok THEN r.val ELSE EmptyDict

\* _serialize_transcription_result(data)
serialize_transcription_result(data) ==
  IF data.kind = "dict" /\ \A i \in 1..Len(TRANSCRIPTION_RESULT_SCHEMA) :
                              TRANSCRIPTION_RESULT_SCHEMA[i][1] \in DOMAIN data
    THEN WriteRecord(TRANSCRIPTION_RESULT_SCHEMA, data, 1)
    ELSE <<>>

(***************************************************************************)
(* KafkaStreamService                                                      *)
(***************************************************************************)
\* total number of send_audio_chunk calls explored
MaxSends == 2

SessionIds == {<<115, 49>>, <<115, 50>>}    \* "s1", "s2"
UserId1 == <<117, 49>>                      \* "u1"
UserRealtime == <<114, 117>>                \* "realtime_user"
AudioDatas == {<<>>, <<82, 73>>}
SampleRates == {16000, 48000}
ChunkIndexes == {0, 300}
FormatWav == <<119, 97, 118>>               \* "wav"
ModelWhisper == <<119, 104>>                \* model_name "whisper"
StatusSuccess == <<111, 107>>               \* status "success"
StatusError == <<101, 114>>                 \* status "error"

\* the fields a caller of send_audio_chunk gives (chunk_id and timestamp are made up
\* by the service at each call)
PayloadFields == {"session_id", "user_id", "audio_data", "sample_rate", "channels",
                  "format", "language", "chunk_index", "is_final"}
PayloadOf(chunk) == [f \in PayloadFields |-> chunk[f]]

kss_Init ==
  /\ mon_performance_history = EmptyMap
  /\ kss_kafka_available \in BOOLEAN
  /\ kss_producer = "None"
  /\ kss_consumer = "None"
  /\ kss_loop = FALSE
  /\ kss_started = "never"
  /\ broker_up \in BOOLEAN
  /\ kss_audio_topic = <<>>
  /\ kss_offset = 0
  /\ kss_transcription_topic = <<>>
  /\ kss_active_sessions = EmptyMap
  /\ kss_processing_stats = [total_chunks_processed |-> 0, successful_transcriptions |-> 0,
                             failed_transcriptions |-> 0]
  /\ kss_sends = 0
  /\ kss_processed = <<>>
  /\ kss_result = [op |-> "none"]

\* start(): fail names the await that raises. producer.start() raises when the broker
\* is not reachable; consumer.start() raises when the broker went away after the
\* producer had started. self.producer / self.consumer are assigned before the
\* respective start() is awaited (lines 109-117, 121-131).
start(fail) ==
  /\ kss_started = "never"
  /\ kss_result' = [op |-> "start"]
  /\ IF ~kss_kafka_available
       THEN /\ kss_started' = "False"
            /\ UNCHANGED <<kss_producer, kss_consumer, kss_loop, broker_up>>
       ELSE \/ /\ fail = "producer_start" /\ ~broker_up
               /\ kss_producer' = "created"
               /\ kss_started' = "False"
               /\ UNCHANGED <<kss_consumer, kss_loop, broker_up>>
            \/ /\ fail = "consumer_start" /\ broker_up
               /\ broker_up' = FALSE
               /\ kss_producer' = "started" /\ kss_consumer' = "created"
               /\ kss_started' = "False"
               /\ UNCHANGED kss_loop
            \/ /\ fail = "none" /\ broker_up
               /\ kss_producer' = "started" /\ kss_consumer' = "started"
               /\ kss_loop' = TRUE
               /\ kss_started' = "True"
               /\ UNCHANGED broker_up
  /\ UNCHANGED <<mon_performance_history, kss_kafka_available, kss_audio_topic, kss_offset,
                 kss_transcription_topic, kss_active_sessions, kss_processing_stats,
                 kss_sends, kss_processed>>

\* producer.send(topic, key, value): the producer was built with
\* value_serializer=self._serialize_audio_chunk (line 111), applied to every value
ProducerSend(topic, key, value) ==
  Append(topic, [key |-> key, value |-> serialize_audio_chunk(value)])

\* the producer can deliver: it has started and the broker is reachable
ProducerWorks == kss_producer = "started" /\ broker_up

\* _send_transcription_result(result): the transcription topic after the call
SendTranscriptionResult(result) ==
  IF kss_producer = "None" THEN kss_transcription_topic
  ELSE IF ProducerWorks
    THEN ProducerSend(kss_transcription_topic, result.session_id,
                      [kind |-> "bytes", value |-> serialize_transcription_result(result)])
    ELSE kss_transcription_topic   \* producer.send raises, lines 397-398

\* _process_audio_chunk(audio_chunk), reached by `path` ("direct" or "consumer");
\* api is what lies behind the engine call. sessions is self.active_sessions as the
\* caller left it.
process_audio_chunk(path, chunk, api, sessions) ==
  LET result == transcribe_audio_bytes(api)
      sid == chunk.session_id
      out == [kind |-> "dict", session_id |-> sid, user_id |-> chunk.user_id,
              chunk_id |-> chunk.chunk_id, text |-> result.text,
              confidence |-> result.confidence, language |-> chunk.language,
              timestamp |-> chunk.timestamp, processing_time |-> 0,
              model_name |-> ModelWhisper,
              status |-> IF result.has_error THEN StatusError ELSE StatusSuccess,
              error_message |-> IF result.has_error
                                  THEN [isnull |-> FALSE, value |-> TextApiError]
                                  ELSE [isnull |-> TRUE]]
  IN /\ kss_processed' = Append(kss_processed, [path |-> path, chunk |-> chunk])
     /\ kss_transcription_topic' = SendTranscriptionResult(out)
     /\ IF result.raised
          THEN \* lines 359-377: only the error result is sent
               /\ UNCHANGED <<mon_performance_history, kss_processing_stats>>
               /\ kss_active_sessions' = sessions
          ELSE /\ mon_performance_history' =
                    record_model_performance(mon_performance_history, "whisper_kafka",
                                             result.confidence, result.has_error)
               /\ kss_processing_stats' =
                    [total_chunks_processed |-> kss_processing_stats.total_chunks_processed + 1,
                     successful_transcriptions |-> kss_processing_stats.successful_transcriptions
                                                     + (IF result.has_error THEN 0 ELSE 1),
                     failed_transcriptions |-> kss_processing_stats.failed_transcriptions
                                                     + (IF result.has_error THEN 1 ELSE 0)]
               /\ kss_active_sessions' =
                    IF sid \in DOMAIN sessions
                      THEN [sessions EXCEPT ![sid].chunks_processed = @ + 1]
                      ELSE sessions

\* the queue backend is unavailable: the broker library is missing, start() was never
\* called, or start() returned False
QueueUnavailable == ~kss_kafka_available \/ kss_started \in {"never", "False"}

\* send_audio_chunk(session_id, user_id, audio_data, sample_rate, channels, format,
\* language, chunk_index, is_final): the call itself; channels, format and language
\* are left at their defaults by every caller
SendAudioChunk(session_id, user_id, audio_data, sample_rate, chunk_index, is_final, api) ==
  /\ kss_sends' = kss_sends + 1
  /\ LET audio_chunk_data ==
           [kind |-> "dict", session_id |-> session_id, user_id |-> user_id,
            chunk_id |-> <<99, 49 + kss_sends>>, audio_data |-> audio_data,
            sample_rate |-> sample_rate, channels |-> 1, format |-> FormatWav,
            timestamp |-> 1000 + kss_sends, language |-> LangEn,
            chunk_index |-> chunk_index, is_final |-> is_final]
         report == [op |-> "send", chunk |-> audio_chunk_data, unavailable |-> QueueUnavailable]
     IN IF kss_producer = "None"
          THEN \* lines 207-226: the direct call
               /\ process_audio_chunk("direct", audio_chunk_data, api, kss_active_sessions)
               /\ kss_result' = report @@ [ret |-> TRUE]
               /\ UNCHANGED kss_audio_topic
          ELSE IF ProducerWorks
          THEN \* lines 228-262
               /\ kss_audio_topic' = ProducerSend(kss_audio_topic, session_id, audio_chunk_data)
               /\ kss_active_sessions' =
                    IF session_id \in DOMAIN kss_active_sessions
                      THEN [kss_active_sessions EXCEPT ![session_id].chunks_sent = @ + 1]
                      ELSE With(kss_active_sessions, session_id,
                                [chunks_sent |-> 1, chunks_processed |-> 0])
               /\ kss_result' = report @@ [ret |-> TRUE]
               /\ UNCHANGED <<mon_performance_history, kss_transcription_topic,
                              kss_processing_stats, kss_processed>>
          ELSE \* producer.send raises on a producer that has not started or cannot
               \* reach the broker: lines 264-266
               /\ kss_result' = report @@ [ret |-> FALSE]
               /\ UNCHANGED <<mon_performance_history, kss_audio_topic, kss_transcription_topic,
                              kss_active_sessions, kss_processing_stats, kss_processed>>
  /\ UNCHANGED <<kss_kafka_available, kss_producer, kss_consumer, kss_loop, kss_started,
                 broker_up, kss_offset>>

\* a caller (a route, a test) sends a chunk
send_audio_chunk(session_id, audio_data, sample_rate, chunk_index, is_final, api) ==
  /\ kss_sends < MaxSends
  /\ SendAudioChunk(session_id, UserId1, audio_data, sample_rate, chunk_index, is_final, api)

RECURSIVE Utf8Valid(_)
\* bytes.decode("utf-8") succeeds: ASCII bytes stand alone, a lead byte is followed by
\* the continuation bytes (128..191) it announces, any other byte is an error
Utf8Valid(b) ==
  IF b = <<>> THEN TRUE
  ELSE LET h == Head(b)
           n == IF h < 128 THEN 0
                ELSE IF h >= 194 /\ h <= 223 THEN 1
                ELSE IF h >= 224 /\ h <= 239 THEN 2
                ELSE IF h >= 240 /\ h <= 244 THEN 3
                ELSE 4
       IN /\ n < 4
          /\ Len(b) > n
          /\ \A i \in 2..(n + 1) : b[i] >= 128 /\ b[i] <= 191
          /\ Utf8Valid(SubSeq(b, n + 2, Len(b)))

\* key_deserializer of the consumer (line 125): lambda x: x.decode("utf-8") if x else None
key_deserializer(x) ==
  IF x = <<>> THEN [raised |-> FALSE, isnull |-> TRUE]
  ELSE IF Utf8Valid(x) THEN [raised |-> FALSE, isnull |-> FALSE, value |-> x]
  ELSE [raised |-> TRUE]

\* one turn of the `async for message in self.consumer` loop of _process_audio_streams.
\* The consumer applies key_deserializer and value_deserializer while it produces the
\* next message, that is in the `async for` statement itself (line 276), outside the
\* try of lines 277-287: what a deserializer raises reaches the handler of lines
\* 289-290, after which the coroutine returns. _deserialize_audio_chunk never raises.
process_audio_streams(api) ==
  /\ kss_loop /\ kss_consumer = "started" /\ broker_up
  /\ kss_offset < Len(kss_audio_topic)
  /\ LET message == kss_audio_topic[kss_offset + 1]
         audio_chunk == deserialize_audio_chunk(message.value)
     IN IF key_deserializer(message.key).raised
          THEN /\ kss_loop' = FALSE
               /\ kss_result' = [op |-> "consume_stopped"]
               /\ UNCHANGED <<mon_performance_history, kss_transcription_topic,
                              kss_active_sessions, kss_processing_stats, kss_processed,
                              kss_offset>>
          ELSE /\ kss_offset' = kss_offset + 1
               /\ kss_result' = [op |-> "consume"]
               /\ UNCHANGED kss_loop
               /\ IF audio_chunk = EmptyDict
                    THEN \* lines 279-280: `if not audio_chunk: continue`
                         UNCHANGED <<mon_performance_history, kss_transcription_topic,
                                     kss_active_sessions, kss_processing_stats, kss_processed>>
                    ELSE process_audio_chunk("consumer", audio_chunk, api, kss_active_sessions)
  /\ UNCHANGED <<kss_kafka_available, kss_producer, kss_consumer, kss_started,
                 broker_up, kss_audio_topic, kss_sends>>

\* number of messages on the audio topic up to which other producers write to it
MaxTopicLen == 3
\* raw keys and values another producer may write: an empty and a text key, a key that
\* is not UTF-8; an empty value and a value cut short
ForeignKeys == {<<>>, <<115, 49>>, <<255>>}
ForeignValues == {<<>>, <<4, 115>>}

\* another producer (any client of the broker) appends a raw message to the audio topic
ForeignProduce(key, value) ==
  /\ broker_up
  /\ Len(kss_audio_topic) < MaxTopicLen
  /\ kss_audio_topic' = Append(kss_audio_topic, [key |-> key, value |-> value])
  /\ UNCHANGED <<mon_performance_history, kss_kafka_available, kss_producer, kss_consumer,
                 kss_loop, kss_started, broker_up, kss_offset, kss_transcription_topic,
                 kss_active_sessions, kss_processing_stats, kss_sends, kss_processed, kss_result>>

\* the broker becomes unreachable, or reachable again
BrokerChange ==
  /\ broker_up' = ~broker_up
  /\ UNCHANGED <<mon_performance_history, kss_kafka_available, kss_producer, kss_consumer,
                 kss_loop, kss_started, kss_audio_topic, kss_offset, kss_transcription_topic,
                 kss_active_sessions, kss_processing_stats, kss_sends, kss_processed, kss_result>>

kss_Next ==
  \/ \E fail \in {"none", "producer_start", "consumer_start"} : start(fail) /\ kss_frame
  \/ \E sid \in SessionIds, ad \in AudioDatas, sr \in SampleRates, ci \in ChunkIndexes,
        fin \in BOOLEAN, api \in ApiOutcomes :
        send_audio_chunk(sid, ad, sr, ci, fin, api) /\ kss_frame
  \/ \E api \in ApiOutcomes : process_audio_streams(api) /\ kss_frame
  \/ BrokerChange /\ kss_frame

\* the consumer loop fed by the service's own producer and by other producers
consumer_Next ==
  \/ \E fail \in {"none", "producer_start", "consumer_start"} : start(fail) /\ kss_frame
  \/ \E sid \in SessionIds, ad \in AudioDatas, api \in ApiOutcomes :
        send_audio_chunk(sid, ad, 16000, 0, FALSE, api) /\ kss_frame
  \/ \E key \in ForeignKeys, value \in ForeignValues : ForeignProduce(key, value) /\ kss_frame
  \/ \E api \in ApiOutcomes : process_audio_streams(api) /\ kss_frame

(***************************************************************************)
(* RealtimeStreamingService                                                *)
(*                                                                         *)
(* One handler coroutine per websocket, which creates two tasks: the       *)
(* dispatcher (_process_audio_stream) and the text streamer                *)
(* (_stream_text_updates). All run on one event loop, so a step is the     *)
(* code between two awaits that suspend. self.buffer_lock is never held    *)
(* across an await, so acquiring it never suspends. Writes to a websocket  *)
(* (_send_message) swallow their errors and change nothing in the service; *)
(* of them only the transcription messages are recorded (rss_delivered).   *)
(* ping, get_status, unknown and malformed messages change no state.       *)
(***************************************************************************)
\* total number of connections accepted (stats["total_connections"])
MaxConnections == 2
\* total number of audio frames received (stats["total_audio_chunks"])
MaxAudioChunks == 2

\* the session id as the string handed to the queue service
SessionCode(s) == IF s = "s1" THEN <<115, 49>> ELSE <<115, 50>>

NoTask == [pc |-> "none", session_id |-> "s1", audio_chunks |-> <<>>, failed |-> FALSE,
           stale |-> FALSE]

RECURSIVE CombinedLen(_)
\* len(b"".join(audio_chunks))
CombinedLen(chunks) == IF chunks = <<>> THEN 0 ELSE Head(chunks) + CombinedLen(Tail(chunks))

rss_Init ==
  /\ rss_handler = [c \in Connections |-> "closed"]
  /\ rss_active_connections = {}
  /\ rss_connection_sessions = EmptyMap
  /\ rss_session_connections = EmptyMap
  /\ rss_audio_buffers = EmptyMap
  /\ rss_text_subscribers = EmptyMap
  /\ rss_text_queue = EmptyMap
  /\ rss_stats = [total_connections |-> 0, active_connections |-> 0, total_audio_chunks |-> 0,
                  total_transcriptions |-> 0]
  /\ rss_processing_task = [c \in Connections |-> NoTask]
  /\ rss_text_task = [c \in Connections |-> [pc |-> "none", session_id |-> "s1"]]
  /\ rss_delivered = {}
  /\ rss_torn_down = {}

\* no handler and no task uses the connection id c
IdFree(c) ==
  /\ rss_handler[c] = "closed"
  /\ rss_processing_task[c].pc \in {"none", "done"}
  /\ rss_text_task[c].pc \in {"none", "done"}

\* handle_websocket_connection up to the welcome send (lines 54-101). The ids are
\* uuid4 values: c is an id no handler or task uses (the first such, the ids being
\* interchangeable), s an id no live session uses.
Connect(c, s) ==
  /\ IdFree(c)
  /\ (c = "c2" => ~IdFree("c1"))
  /\ s \notin DOMAIN rss_session_connections
  /\ rss_stats.total_connections < MaxConnections
  /\ rss_handler' = [rss_handler EXCEPT ![c] = "welcome"]
  /\ rss_active_connections' = rss_active_connections \cup {c}
  /\ rss_connection_sessions' =
       With(rss_connection_sessions, c,
            [session_id |-> s, audio_chunks_received |-> 0, transcriptions_sent |-> 0])
  /\ rss_session_connections' =
       With(rss_session_connections, s,
            (IF s \in DOMAIN rss_session_connections THEN rss_session_connections[s] ELSE {})
              \cup {c})
  /\ rss_audio_buffers' = With(rss_audio_buffers, s, <<>>)
  /\ rss_text_queue' = With(rss_text_queue, s, <<>>)
  /\ rss_stats' = [rss_stats EXCEPT !.total_connections = @ + 1, !.active_connections = @ + 1]
  /\ rss_delivered' = {d \in rss_delivered : d.connection_id # c}   \* a new websocket
  /\ UNCHANGED <<rss_text_subscribers, rss_processing_task, rss_text_task,
                 rss_torn_down, mon_performance_history, kss_vars>>

\* lines 104-105: the welcome send is over, the two tasks are created and the handler
\* enters its message loop
StartTasks(c) ==
  /\ rss_handler[c] = "welcome"
  /\ rss_handler' = [rss_handler EXCEPT ![c] = "open"]
  /\ LET s == rss_connection_sessions[c].session_id
     IN /\ rss_processing_task' =
             [rss_processing_task EXCEPT ![c] = [NoTask EXCEPT !.pc = "sleep", !.session_id = s]]
        /\ rss_text_task' = [rss_text_task EXCEPT ![c] = [pc |-> "run", session_id |-> s]]
        /\ rss_torn_down' = rss_torn_down \ {s}
  /\ UNCHANGED <<rss_active_connections, rss_connection_sessions, rss_session_connections,
                 rss_audio_buffers, rss_text_subscribers, rss_text_queue, rss_stats,
                 rss_delivered, mon_performance_history, kss_vars>>

\* _handle_audio_data(audio_data, session_id, connection_id): a binary frame of
\* `len` bytes arrives
HandleAudioData(c, len) ==
  /\ rss_handler[c] = "open"
  /\ LET s == rss_connection_sessions[c].session_id
     IN rss_audio_buffers' =
          IF s \in DOMAIN rss_audio_buffers
            THEN [rss_audio_buffers EXCEPT ![s] = Append(@, len)]
            ELSE rss_audio_buffers
  /\ rss_connection_sessions' =
       IF c \in DOMAIN rss_connection_sessions
         THEN [rss_connection_sessions EXCEPT ![c].audio_chunks_received = @ + 1]
         ELSE rss_connection_sessions
  /\ rss_stats' = [rss_stats EXCEPT !.total_audio_chunks = @ + 1]
  /\ UNCHANGED <<rss_handler, rss_active_connections, rss_session_connections,
                 rss_text_subscribers, rss_text_queue, rss_processing_task, rss_text_task,
                 rss_delivered, rss_torn_down, mon_performance_history, kss_vars>>

\* a client sends a binary frame
ReceiveAudio(c, len) ==
  /\ rss_stats.total_audio_chunks < MaxAudioChunks
  /\ HandleAudioData(c, len)

\* _handle_text_message, message types "subscribe_text" and "unsubscribe_text"
HandleTextMessage(c, message_type) ==
  /\ rss_handler[c] = "open"
  /\ LET s == rss_connection_sessions[c].session_id
     IN rss_text_subscribers' =
          IF message_type = "subscribe_text"
            THEN With(rss_text_subscribers, s,
                      (IF s \in DOMAIN rss_text_subscribers THEN rss_text_subscribers[s] ELSE {})
                        \cup {c})
            ELSE IF s \in DOMAIN rss_text_subscribers
                   THEN [rss_text_subscribers EXCEPT ![s] = @ \ {c}]
                   ELSE rss_text_subscribers
  /\ UNCHANGED <<rss_handler, rss_active_connections, rss_connection_sessions,
                 rss_session_connections, rss_audio_buffers, rss_text_queue, rss_stats,
                 rss_processing_task, rss_text_task, rss_delivered, rss_torn_down,
                 mon_performance_history, kss_vars>>

\* _get_session_status(session_id)
get_session_status(s) ==
  [active_connections |->
     IF s \in DOMAIN rss_session_connections THEN Cardinality(rss_session_connections[s]) ELSE 0,
   audio_chunks_buffered |->
     IF s \in DOMAIN rss_audio_buffers THEN Len(rss_audio_buffers[s]) ELSE 0,
   text_subscribers |->
     IF s \in DOMAIN rss_text_subscribers THEN Cardinality(rss_text_subscribers[s]) ELSE 0]

\* one turn of the loop of _process_audio_stream, from the loop test to the await of
\* the engine call, or to the sleep when there is nothing to submit (lines 247-261, 291)
DispatcherCycle(c) ==
  /\ rss_processing_task[c].pc = "sleep"
  /\ LET s == rss_processing_task[c].session_id
         drain == s \in DOMAIN rss_audio_buffers /\ rss_audio_buffers[s] # <<>>
         audio_chunks == IF drain THEN rss_audio_buffers[s] ELSE <<>>
     IN IF c \notin rss_active_connections
          THEN /\ rss_processing_task' = [rss_processing_task EXCEPT ![c].pc = "done"]
               /\ UNCHANGED rss_audio_buffers
          ELSE /\ rss_audio_buffers' =
                    IF drain THEN [rss_audio_buffers EXCEPT ![s] = <<>>] ELSE rss_audio_buffers
               /\ rss_processing_task' =
                    IF audio_chunks # <<>>   \* `if audio_chunks:` tests the list
                      THEN [rss_processing_task EXCEPT ![c].pc = "engine",
                                                       ![c].audio_chunks = audio_chunks]
                      ELSE rss_processing_task
  /\ UNCHANGED <<rss_handler, rss_active_connections, rss_connection_sessions,
                 rss_session_connections, rss_text_subscribers, rss_text_queue, rss_stats,
                 rss_text_task, rss_delivered, rss_torn_down, mon_performance_history, kss_vars>>

\* self.connection_sessions after lines 287-288
TranscriptionCounted(c) ==
  IF c \in DOMAIN rss_connection_sessions
    THEN [rss_connection_sessions EXCEPT ![c].transcriptions_sent = @ + 1]
    ELSE rss_connection_sessions

\* the engine call of the dispatcher of c ends (api: what lay behind it); the turn
\* goes on to the await of the queue send inside _send_transcription_result, or to
\* the sleep (lines 262-291, 299-315)
EngineReturn(c, api) ==
  /\ rss_processing_task[c].pc = "engine"
  /\ LET t == rss_processing_task[c]
         s == t.session_id
         result == transcribe_audio_bytes(api)
         send == ~result.has_error /\ result.text # <<>>
         forward == send /\ kss_producer # "None"
     IN IF result.raised
          THEN \* the exception leaves the while loop (line 295-296)
               /\ rss_processing_task' =
                    [rss_processing_task EXCEPT ![c].pc = "done", ![c].failed = TRUE,
                                                ![c].audio_chunks = <<>>]
               /\ UNCHANGED <<mon_performance_history, rss_stats, rss_text_queue,
                              rss_connection_sessions>>
          ELSE /\ mon_performance_history' =
                    record_model_performance(mon_performance_history, "whisper_realtime",
                                             result.confidence, result.has_error)
               /\ rss_stats' = [rss_stats EXCEPT !.total_transcriptions = @ + 1]
               /\ rss_text_queue' =
                    IF send /\ s \in DOMAIN rss_text_queue
                      THEN [rss_text_queue EXCEPT ![s] =
                              Append(@, [session_id |-> s, text |-> result.text,
                                         stale |-> t.stale])]
                      ELSE rss_text_queue
               /\ rss_connection_sessions' =
                    IF forward THEN rss_connection_sessions ELSE TranscriptionCounted(c)
               /\ rss_processing_task' =
                    [rss_processing_task EXCEPT
                       ![c].pc = IF forward THEN "forward" ELSE "sleep",
                       ![c].failed = @ \/ result.has_error,
                       ![c].audio_chunks = <<>>]
  /\ UNCHANGED <<rss_handler, rss_active_connections, rss_session_connections,
                 rss_audio_buffers, rss_text_subscribers, rss_text_task, rss_delivered,
                 rss_torn_down, kss_vars>>

\* lines 317-325 and 287-291: the send to the queue service, then the sleep
ForwardToQueue(c) ==
  /\ rss_processing_task[c].pc = "forward"
  /\ SendAudioChunk(SessionCode(rss_processing_task[c].session_id), UserRealtime, <<>>,
                    16000, 0, TRUE, "mock")
  /\ UNCHANGED <<kss_kafka_available, kss_producer, kss_consumer, kss_loop, kss_started,
                 broker_up, kss_offset>>
  /\ rss_connection_sessions' = TranscriptionCounted(c)
  /\ rss_processing_task' = [rss_processing_task EXCEPT ![c].pc = "sleep"]
  /\ UNCHANGED <<rss_handler, rss_active_connections, rss_session_connections,
                 rss_audio_buffers, rss_text_subscribers, rss_text_queue, rss_stats,
                 rss_text_task, rss_delivered, rss_torn_down>>

\* one turn of the loop of _stream_text_updates that finds a message: it is taken
\* from the queue and written to the websocket of the task. (A turn that times out
\* writes a keepalive and changes nothing.)
StreamTextUpdate(c) ==
  /\ rss_text_task[c].pc = "run"
  /\ LET s == rss_text_task[c].session_id
     IN IF s \notin DOMAIN rss_text_queue
          THEN /\ rss_text_task' = [rss_text_task EXCEPT ![c].pc = "done"]
               /\ UNCHANGED <<rss_text_queue, rss_delivered>>
          ELSE /\ rss_text_queue[s] # <<>>
               /\ rss_text_queue' = [rss_text_queue EXCEPT ![s] = Tail(@)]
               /\ rss_delivered' = rss_delivered \cup
                    {[connection_id |-> c, stale |-> Head(rss_text_queue[s]).stale]}
               /\ UNCHANGED rss_text_task
  /\ UNCHANGED <<rss_handler, rss_active_connections, rss_connection_sessions,
                 rss_session_connections, rss_audio_buffers, rss_text_subscribers, rss_stats,
                 rss_processing_task, rss_torn_down, mon_performance_history, kss_vars>>

\* _cleanup_connection: self.session_connections after lines 404-408
SessionConnectionsAfterCleanup(c, s) ==
  IF s \in DOMAIN rss_session_connections
    THEN IF rss_session_connections[s] \ {c} = {}
           THEN Without(rss_session_connections, s)
           ELSE [rss_session_connections EXCEPT ![s] = @ \ {c}]
    ELSE rss_session_connections

\* mutant of AudioBuffersAfterCleanup: the buffer of the session is kept
AudioBuffersAfterCleanup_keeps(s, session_connections) == rss_audio_buffers

\* _cleanup_connection: self.audio_buffers after lines 414-418
AudioBuffersAfterCleanup(s, session_connections) ==
  IF s \notin DOMAIN session_connections THEN Without(rss_audio_buffers, s) ELSE rss_audio_buffers

\* _cleanup_connection: self.text_queue after lines 420-422
TextQueueAfterCleanup(s, session_connections) ==
  IF s \notin DOMAIN session_connections THEN Without(rss_text_queue, s) ELSE rss_text_queue

\* mutant of TextSubscribersAfterCleanup: the subscriber set of the session is kept
TextSubscribersAfterCleanup_keeps(s, session_connections) == rss_text_subscribers

\* _cleanup_connection: self.text_subscribers after lines 424-426
TextSubscribersAfterCleanup(s, session_connections) ==
  IF s \notin DOMAIN session_connections
    THEN Without(rss_text_subscribers, s)
    ELSE rss_text_subscribers

\* mutant of CancelTasks: the two tasks are left running
CancelTasks_none(c, tasks) ==
  /\ rss_processing_task' = tasks
  /\ UNCHANGED rss_text_task

\* lines 128-132: processing_task.cancel() and text_streaming_task.cancel(). Either
\* task is suspended at an await, where the CancelledError ends it (it is no
\* Exception, so neither the engine's nor the loop's handlers for Exception hold it)
CancelTasks(c, tasks) ==
  /\ rss_processing_task' = [tasks EXCEPT ![c].pc = "done", ![c].audio_chunks = <<>>,
                                          ![c].failed = FALSE]
  /\ rss_text_task' = [rss_text_task EXCEPT ![c].pc = "done"]

\* the dispatcher tasks, those with an engine call in flight for session s marked
InFlightMarked(s) ==
  [c \in Connections |->
     IF rss_processing_task[c].session_id = s /\ rss_processing_task[c].pc = "engine"
       THEN [rss_processing_task[c] EXCEPT !.stale = TRUE]
       ELSE rss_processing_task[c]]

\* the websocket of c closes: the message loop ends and the finally block runs
\* _cleanup_connection and cancels the two tasks (lines 124-132, 396-436)
Disconnect(c) ==
  /\ rss_handler[c] = "open"
  /\ rss_handler' = [rss_handler EXCEPT ![c] = "closed"]
  /\ LET s == rss_connection_sessions[c].session_id
         session_connections == SessionConnectionsAfterCleanup(c, s)
         last == s \notin DOMAIN session_connections
     IN /\ rss_active_connections' = rss_active_connections \ {c}
        /\ rss_session_connections' = session_connections
        /\ rss_connection_sessions' = Without(rss_connection_sessions, c)
        /\ rss_audio_buffers' = AudioBuffersAfterCleanup(s, session_connections)
        /\ rss_text_queue' = TextQueueAfterCleanup(s, session_connections)
        /\ rss_text_subscribers' = TextSubscribersAfterCleanup(s, session_connections)
        /\ rss_stats' = [rss_stats EXCEPT
                           !.active_connections = Cardinality(rss_active_connections \ {c})]
        /\ CancelTasks(c, IF last THEN InFlightMarked(s) ELSE rss_processing_task)
        /\ rss_torn_down' =
             IF last /\ s \in DOMAIN rss_audio_buffers /\ rss_audio_buffers[s] # <<>>
               THEN rss_torn_down \cup {s}
               ELSE rss_torn_down
  /\ UNCHANGED <<rss_delivered, mon_performance_history, kss_vars>>

\* the one caller of kafka_stream_service.start() is startup_event of main.py, the
\* handler that runs before the application accepts a websocket
StartQueueService ==
  /\ rss_stats.total_connections = 0
  /\ \E fail \in {"none", "producer_start", "consumer_start"} : start(fail)

rss_Next ==
  \/ \E c \in Connections, s \in Sessions : Connect(c, s) /\ rss_frame
  \/ \E c \in Connections : StartTasks(c) /\ rss_frame
  \/ \E c \in Connections, len \in ChunkLens : ReceiveAudio(c, len) /\ rss_frame
  \/ \E c \in Connections, type \in {"subscribe_text", "unsubscribe_text"} :
        HandleTextMessage(c, type) /\ rss_frame
  \/ \E c \in Connections : DispatcherCycle(c) /\ rss_frame
  \/ \E c \in Connections, api \in ApiOutcomes : EngineReturn(c, api) /\ rss_frame
  \/ \E c \in Connections : ForwardToQueue(c) /\ rss_frame
  \/ \E c \in Connections : StreamTextUpdate(c) /\ rss_frame
  \/ \E c \in Connections : Disconnect(c) /\ rss_frame
  \/ StartQueueService /\ kss_frame

(***************************************************************************)
(* routes/realtime_routes.py: the two websocket routes                     *)
(***************************************************************************)
route_Init == route_request = [op |-> "none"]

\* websocket_audio_stream: /realtime/ws/stream. The handler is called with the
\* websocket, the path and the user; c and s are the uuid4 values it draws.
websocket_audio_stream(c, s) ==
  /\ Connect(c, s)
  /\ route_request' = [op |-> "stream", connection_id |-> c]

\* websocket_audio_stream_with_session: /realtime/ws/stream/{session_id}. The
\* session id asked for reaches the handler only inside the path string, which the
\* handler does not read; c and s are the uuid4 values it draws.
websocket_audio_stream_with_session(c, session_id, s) ==
  /\ Connect(c, s)
  /\ route_request' = [op |-> "stream_with_session", connection_id |-> c,
                       session_id |-> session_id,
                       existing |-> session_id \in DOMAIN rss_session_connections]

route_Next ==
  \/ \E c \in Connections, s \in Sessions : websocket_audio_stream(c, s) /\ route_frame
  \/ \E c \in Connections, session_id \in Sessions, s \in Sessions :
        websocket_audio_stream_with_session(c, session_id, s) /\ route_frame
  \/ \E c \in Connections : StartTasks(c) /\ rss_frame
  \/ \E c \in Connections, len \in ChunkLens : ReceiveAudio(c, len) /\ rss_frame
  \/ \E c \in Connections, type \in {"subscribe_text", "unsubscribe_text"} :
        HandleTextMessage(c, type) /\ rss_frame
  \/ \E c \in Connections : Disconnect(c) /\ rss_frame

(***************************************************************************)
(* main.py: process_audio_directly, the task the /ws/{client_id} endpoint  *)
(* creates for every binary frame                                          *)
(***************************************************************************)
main_Init == main_result = [op |-> "none"]

RECURSIVE RecordAll(_, _, _)
\* the history after record_model_performance was called for each sample in turn
RecordAll(history, model_name, samples) ==
  IF samples = <<>> THEN history
  ELSE RecordAll(record_model_performance(history, model_name, Head(samples).confidence,
                                          Head(samples).error_occurred),
                 model_name, Tail(samples))

\* process_audio_directly(websocket, audio_data, client_id, user): has_user tells
\* whether the endpoint was given a token (user is None without one), len is the
\* length of audio_data["audio_bytes"], api what lies behind the engine call and ws
\* what websocket.send_text does ("open": sends, "closed": raises)
process_audio_directly(has_user, len, api, ws) ==
  LET result == transcribe_audio_bytes(api)
      failure == [confidence |-> 0, error_occurred |-> TRUE]
      \* lines 502-520 (error result), 527-535 (success)
      first == IF ~has_user \/ result.raised THEN <<>>
               ELSE IF result.has_error THEN <<failure>>
               ELSE <<[confidence |-> result.confidence, error_occurred |-> FALSE]>>
      \* lines 582-593: the handler of whatever the try block raised, the engine
      \* call or a send_text on a closed websocket
      second == IF has_user /\ (result.raised \/ ws = "closed") THEN <<failure>> ELSE <<>>
      samples == first \o second
  IN IF len = 0
       THEN \* lines 495-500: no audio, no engine call
            /\ main_result' = [op |-> "process", engine_called |-> FALSE, failed |-> FALSE,
                               samples |-> <<>>]
            /\ UNCHANGED mon_performance_history
       ELSE /\ main_result' = [op |-> "process", engine_called |-> TRUE,
                               failed |-> result.has_error \/ result.raised,
                               samples |-> samples]
            /\ mon_performance_history' = RecordAll(mon_performance_history, "whisper", samples)

main_Next ==
  \E has_user \in BOOLEAN, len \in ChunkLens, api \in ApiOutcomes, ws \in {"open", "closed"} :
    process_audio_directly(has_user, len, api, ws) /\ main_frame

(***************************************************************************)
(* main.py: websocket_endpoint (/ws/{client_id})                           *)
(*                                                                         *)
(* One websocket_endpoint call per websocket; it creates one               *)
(* process_audio_directly task per audio message and does not await it.    *)
(* The connections modelled carry no token (user is None).                 *)
(***************************************************************************)
Websockets == {"w1", "w2"}
ClientIds == {"a", "b"}
\* audio messages received on one websocket
MaxFrames == 2

ws_Init ==
  /\ ws_active_connections = EmptyMap
  /\ ws_handler = [w \in Websockets |-> "none"]
  /\ ws_client = [w \in Websockets |-> "a"]
  /\ ws_received = [w \in Websockets |-> 0]
  /\ ws_tasks = {}
  /\ ws_sent = [w \in Websockets |-> <<>>]

\* manager.disconnect(client_id), lines 109-113: the registry after the call
ManagerDisconnect(client_id) ==
  IF client_id \in DOMAIN ws_active_connections
    THEN Without(ws_active_connections, client_id) ELSE ws_active_connections

\* websocket_endpoint up to the receive loop (lines 399-428); with rejected, the rate
\* limit or the token check closes the websocket and the call returns
EndpointConnect(w, client_id, rejected) ==
  /\ ws_handler[w] = "none"
  /\ ws_client' = [ws_client EXCEPT ![w] = client_id]
  /\ IF rejected
       THEN /\ ws_handler' = [ws_handler EXCEPT ![w] = "ended"]
            /\ UNCHANGED ws_active_connections
       ELSE /\ ws_handler' = [ws_handler EXCEPT ![w] = "running"]
            \* manager.connect, lines 103-107
            /\ ws_active_connections' = With(ws_active_connections, client_id, w)
  /\ UNCHANGED <<ws_received, ws_tasks, ws_sent, main_vars, mon_performance_history>>

\* one turn of the receive loop (lines 431-455): an audio message of `len` bytes is
\* received, acknowledged, and a task is created for it
EndpointReceive(w, len) ==
  /\ ws_handler[w] = "running"
  /\ ws_received[w] < MaxFrames
  /\ ws_received' = [ws_received EXCEPT ![w] = @ + 1]
  /\ ws_tasks' = ws_tasks \cup {[websocket |-> w, frame |-> ws_received[w] + 1, len |-> len,
                                  pc |-> "created"]}
  /\ UNCHANGED <<ws_active_connections, ws_handler, ws_client, ws_sent, main_vars,
                 mon_performance_history>>

\* the receive loop ends with WebSocketDisconnect or another exception (lines 457-461)
EndpointDisconnect(w) ==
  /\ ws_handler[w] = "running"
  /\ ws_handler' = [ws_handler EXCEPT ![w] = "ended"]
  /\ ws_active_connections' = ManagerDisconnect(ws_client[w])
  /\ UNCHANGED <<ws_client, ws_received, ws_tasks, ws_sent, main_vars, mon_performance_history>>

\* what websocket.send_text does on w
SendTextOn(w) == IF ws_handler[w] = "running" THEN "open" ELSE "closed"

\* ws_sent after one send_text on the websocket of the task
SentAfter(task) ==
  IF SendTextOn(task.websocket) = "open"
    THEN [ws_sent EXCEPT ![task.websocket] = Append(@, task.frame)]
    ELSE ws_sent

\* a created task runs for the first time, the tasks of the loop starting in the order
\* of their creation: without audio it sends its error message and returns (lines
\* 478-483), otherwise it runs up to the await of the engine call (line 489)
TaskStart(task) ==
  /\ task \in ws_tasks
  /\ task.pc = "created"
  /\ \A other \in ws_tasks :
        (other.websocket = task.websocket /\ other.pc = "created") => other.frame >= task.frame
  /\ IF task.len = 0
       THEN /\ process_audio_directly(FALSE, 0, "text", SendTextOn(task.websocket))
            /\ ws_tasks' = ws_tasks \ {task}
            /\ ws_sent' = SentAfter(task)
       ELSE /\ ws_tasks' = (ws_tasks \ {task}) \cup {[task EXCEPT !.pc = "engine"]}
            /\ UNCHANGED <<ws_sent, main_vars, mon_performance_history>>
  /\ UNCHANGED <<ws_active_connections, ws_handler, ws_client, ws_received>>

\* the engine call of a task returns or raises, and the task sends its one message: the
\* transcription (line 557), the no-speech message (line 580), the error of an error
\* result (line 505) or of an exception (line 597)
TaskReturn(task, api) ==
  /\ task \in ws_tasks
  /\ task.pc = "engine"
  /\ process_audio_directly(FALSE, task.len, api, SendTextOn(task.websocket))
  /\ ws_tasks' = ws_tasks \ {task}
  /\ ws_sent' = SentAfter(task)
  /\ UNCHANGED <<ws_active_connections, ws_handler, ws_client, ws_received>>

ws_Next ==
  \/ \E w \in Websockets, client_id \in ClientIds, rejected \in BOOLEAN :
        EndpointConnect(w, client_id, rejected) /\ ws_frame
  \/ \E w \in Websockets, len \in ChunkLens : EndpointReceive(w, len) /\ ws_frame
  \/ \E w \in Websockets : EndpointDisconnect(w) /\ ws_frame
  \/ \E task \in ws_tasks : TaskStart(task) /\ ws_frame
  \/ \E task \in ws_tasks, api \in ApiOutcomes : TaskReturn(task, api) /\ ws_frame

(***************************************************************************)
(* Specifications                                                          *)
(***************************************************************************)
Init == asp_Init /\ cm_Init /\ kss_Init /\ rss_Init /\ route_Init /\ main_Init /\ mms_Init
        /\ health_Init /\ cycle_Init /\ drain_Init /\ thread_Init /\ ws_Init

SpecBuffer == Init /\ [][asp_Next]_vars

SpecDrain == Init /\ [][drain_Next]_vars

SpecCM == Init /\ [][cm_Next]_vars

SpecKafka == Init /\ [][kss_Next]_vars

SpecDirect == Init /\ [][main_Next]_vars

\* the monitor on its own: the queue service takes no part
InitMonitor == Init /\ ~kss_kafka_available /\ ~broker_up
SpecMonitor == InitMonitor /\ [][mms_Next]_vars

SpecEndpoint == InitMonitor /\ [][ws_Next]_vars

SpecSeverity == InitMonitor /\ [][sev_Next]_vars

SpecHealth == InitMonitor /\ [][health_Next]_vars

SpecMonitorThreads == InitMonitor /\ [][thread_Next]_vars

\* the monitor thread is scheduled again and again, and its sleeps end
SpecMonitorCycle ==
  /\ InitMonitor
  /\ [][cycle_Next]_vars
  /\ WF_vars((\E raises \in BOOLEAN : \E k \in HandledModels(raises) : MonitorCheck(k, raises))
             /\ cycle_frame)
  /\ WF_vars((\E raises \in BOOLEAN : \E k \in HandledModels(raises) : MonitorUpdate(k, raises))
             /\ cycle_frame)

\* the realtime service runs with the broker library installed (without it the queue
\* service stays as it is when start() was never called)
InitRealtime == Init /\ kss_kafka_available
SpecConsumer == InitRealtime /\ [][consumer_Next]_vars

SpecRealtime == InitRealtime /\ [][rss_Next]_vars

SpecRoutes == InitRealtime /\ [][route_Next]_vars

\* the event loop resumes a dispatcher whose sleep is over, an engine call ends
\* (with an answer or an error), and so does a send to the queue service
SpecRealtimeFair ==
  /\ SpecRealtime
  /\ \A c \in Connections :
        /\ WF_vars(DispatcherCycle(c) /\ rss_frame)
        /\ WF_vars((\E api \in ApiOutcomes : EngineReturn(c, api)) /\ rss_frame)
        /\ WF_vars(ForwardToQueue(c) /\ rss_frame)

\* number of audio chunks the client of the three-chunk scenario sends
ScenarioChunks == 3

\* The three-chunk scenario: one client connects, sends ScenarioChunks non-empty
\* chunks on its connection and stays connected; the engine answers every call with
\* a non-empty text. Chunk arrival interleaves freely with the two tasks.
scenario_Next ==
  \/ Connect("c1", "s1") /\ rss_frame
  \/ StartTasks("c1") /\ rss_frame
  \/ /\ rss_stats.total_audio_chunks < ScenarioChunks
     /\ HandleAudioData("c1", 1) /\ rss_frame
  \/ DispatcherCycle("c1") /\ rss_frame
  \/ EngineReturn("c1", "text") /\ rss_frame
  \/ ForwardToQueue("c1") /\ rss_frame
  \/ StreamTextUpdate("c1") /\ rss_frame
  \/ StartQueueService /\ kss_frame

SpecThreeChunks == InitRealtime /\ [][scenario_Next]_vars

(***************************************************************************)
(* Claims about the AudioStreamProcessor (SpecBuffer)                      *)
(***************************************************************************)
\* the buffer of a session as an observer sees it: whether it exists, and its chunks
BufferOf(s) ==
  IF s \in DOMAIN asp_audio_buffers THEN <<TRUE, asp_audio_buffers[s]>> ELSE <<FALSE, <<>>>>

\* C1: whatever the interleaving of appends over the sessions, a drain of one session
\* returns only chunks appended to that session, in the order of their appends (every
\* returned chunk is one of the session's own appends, and their append ranks
\* increase), and an append to one session leaves the buffer of every other session
\* exactly as it was.
C1_DrainKeepsAppendOrder ==
  /\ [](asp_result.op = "get" =>
          LET ch == asp_result.chunks
          IN /\ \A i \in 1..Len(ch) :
                  /\ ch[i].owner = asp_result.session
                  /\ \E k \in 1..Len(asp_result.appended) : asp_result.appended[k] = ch[i]
             /\ \A i, j \in 1..Len(ch) : i < j => ch[i].id < ch[j].id)
  /\ [][\A s \in Sessions :
          (asp_next_id' = asp_next_id + 1 /\ asp_result'.session # s)
             => BufferOf(s)' = BufferOf(s)]_vars

\* a drain returned two chunks of one session between whose appends the other session
\* was appended to
C1_Witness ==
  /\ asp_result.op = "get"
  /\ Len(asp_result.chunks) >= 2
  /\ \E t \in Sessions \ {asp_result.session} :
        \E k \in 1..Len(asp_appended[t]) :
          /\ asp_result.chunks[1].id < asp_appended[t][k].id
          /\ asp_appended[t][k].id < asp_result.chunks[Len(asp_result.chunks)].id

\* C2: after n appends to a session with no drain in between, its buffer holds exactly
\* the min(n, buffer_size) most recently appended chunks in append order, and every
\* append returned True (the chunk was taken, the oldest one making room for it).
C2_KeepsMostRecent ==
  /\ \A s \in DOMAIN asp_audio_buffers :
        asp_audio_buffers[s] = LastN(asp_appended[s], Min(Len(asp_appended[s]), buffer_size))
  /\ asp_result.op = "add" =>
        /\ asp_result.value = TRUE
        /\ asp_result.session \in DOMAIN asp_audio_buffers
        /\ asp_audio_buffers[asp_result.session] # <<>>
        /\ asp_audio_buffers[asp_result.session][Len(asp_audio_buffers[asp_result.session])].id
             = asp_next_id - 1

\* an append was made to a session that had already been appended to buffer_size times
C2_Witness ==
  /\ asp_result.op = "add"
  /\ Len(asp_appended[asp_result.session]) > buffer_size

(***************************************************************************)
(* Claims about the ConnectionManager (SpecCM)                             *)
(***************************************************************************)
\* C3: a broadcast to a session of two connections, one of whose transports raises on
\* send (a connection-closed error or any other) while the other one works, delivers
\* the message to the working connection and returns 1, whichever is visited first.
C3_BroadcastReachesSibling ==
  (/\ cm_result.op = "broadcast"
   /\ Cardinality(cm_result.members) = 2
   /\ \E bad \in cm_result.members :
        /\ cm_result.transport[bad] # "open"
        /\ \A o \in cm_result.members \ {bad} : cm_result.transport[o] = "open")
  => /\ cm_result.sent_count = 1
     /\ \A o \in cm_result.members :
          cm_result.transport[o] = "open" => o \in cm_result.delivered

(***************************************************************************)
(* Claims about KafkaStreamService                                         *)
(***************************************************************************)
\* the calls of _process_audio_chunk made for the chunk of the last send_audio_chunk
CallsForLastSend ==
  SelectSeq(kss_processed, LAMBDA e : e.chunk.chunk_id = kss_result.chunk.chunk_id)

\* C4: whenever the queue backend is unavailable (library missing, start() never
\* called, or start() returned False), a send_audio_chunk call runs the
\* chunk-processing step in-process before it returns, and returns True.
C4_UnavailableFallsBackDirect ==
  (kss_result.op = "send" /\ kss_result.unavailable)
    => /\ kss_result.ret = TRUE
       /\ Len(CallsForLastSend) >= 1
       /\ CallsForLastSend[1].path = "direct"

\* C5: a send_audio_chunk call made while the queue backend is unavailable results in
\* exactly one _process_audio_chunk call, and the payload of that call equals the
\* payload the consumer hands over for the same chunk (the chunk encoded by the
\* producer's serializer and decoded by the consumer's deserializer).
C5_FallbackEqualsConsumerPath ==
  (kss_result.op = "send" /\ kss_result.unavailable)
    => /\ Len(CallsForLastSend) = 1
       /\ LET viaBroker == deserialize_audio_chunk(serialize_audio_chunk(kss_result.chunk))
          IN /\ viaBroker # EmptyDict
             /\ PayloadOf(CallsForLastSend[1].chunk) = PayloadOf(viaBroker)

(***************************************************************************)
(* Claims about RealtimeStreamingService                                   *)
(***************************************************************************)
\* the session the handler of an accepted connection c serves
SessionOf(c) == rss_connection_sessions[c].session_id

\* a cycle of the dispatcher of c has failed, c is still registered, audio is
\* buffered for its session and no engine call is in flight
AudioWaitsAfterFailure(c) ==
  /\ rss_handler[c] = "open"
  /\ c \in rss_active_connections
  /\ rss_processing_task[c].failed
  /\ rss_processing_task[c].pc # "engine"
  /\ SessionOf(c) \in DOMAIN rss_audio_buffers
  /\ rss_audio_buffers[SessionOf(c)] # <<>>

\* C6: a dispatcher cycle whose engine call failed does not stop the loop: while the
\* connection stays registered, audio that is buffered after the failed cycle is
\* drained and submitted to the engine by a later cycle.
C6_FailedCycleDoesNotStopLoop ==
  \A c \in Connections :
    AudioWaitsAfterFailure(c) ~>
      (c \notin rss_active_connections \/ rss_processing_task[c].pc = "engine")

\* a dispatcher that has had a failed cycle has submitted later audio to the engine
C6_Witness ==
  \E c \in Connections :
    /\ c \in rss_active_connections
    /\ rss_processing_task[c].failed
    /\ rss_processing_task[c].pc = "engine"
    /\ rss_processing_task[c].audio_chunks # <<>>

\* C7: the result of an engine call that was in flight when the last connection of
\* its session was removed is discarded: it is on no result queue and was written to
\* no websocket.
C7_InFlightResultDiscarded ==
  /\ \A s \in DOMAIN rss_text_queue :
       \A i \in 1..Len(rss_text_queue[s]) : ~rss_text_queue[s][i].stale
  /\ \A d \in rss_delivered : ~d.stale

\* an engine call was in flight when the last connection of its session was removed,
\* and the session id is in use again
C7_Witness ==
  \E c \in Connections :
    /\ rss_processing_task[c].stale
    /\ rss_processing_task[c].pc = "done"
    /\ rss_processing_task[c].session_id \in DOMAIN rss_text_queue

HasConnection(s) ==
  s \in DOMAIN rss_session_connections /\ rss_session_connections[s] # {}

C10_ZeroBytesNoEngineCall ==
  \A c \in Connections :
    rss_processing_task[c].pc = "engine" => CombinedLen(rss_processing_task[c].audio_chunks) > 0

\* the three chunks of the scenario have arrived and everything they caused is over:
\* the buffer is drained, no engine call or queue send is pending and the text task
\* has written every queued message to the websocket
ScenarioDone ==
  /\ rss_handler["c1"] = "open"
  /\ rss_stats.total_audio_chunks = ScenarioChunks
  /\ rss_audio_buffers["s1"] = <<>>
  /\ rss_processing_task["c1"].pc = "sleep"
  /\ rss_text_queue["s1"] = <<>>

\* C11: when a client has sent three audio chunks on one connection and the engine
\* answers with a non-empty text, the three chunks go to the engine as one payload
\* (one engine call), the client gets exactly one transcription message and exactly
\* one PerformanceSample, with error flag false, is recorded - however the arrival of
\* the chunks interleaves with the dispatcher's cycles.
C11_ThreeChunksOneTranscription ==
  /\ rss_processing_task["c1"].pc = "engine" /\ rss_stats.total_audio_chunks = ScenarioChunks
       /\ rss_audio_buffers["s1"] = <<>>
       => Len(rss_processing_task["c1"].audio_chunks) = ScenarioChunks
  /\ ScenarioDone
       => /\ rss_stats.total_transcriptions = 1
          /\ rss_connection_sessions["c1"].transcriptions_sent = 1
          /\ rss_delivered = {[connection_id |-> "c1", stale |-> FALSE]}
          /\ Len(mon_performance_history["whisper_realtime"]) = 1
          /\ mon_performance_history["whisper_realtime"][1].error_rate = 0

(***************************************************************************)
(* Claims about the recording of PerformanceSamples                        *)
(***************************************************************************)
\* C12: every transcription-engine invocation made by a dispatcher path produces
\* exactly one PerformanceSample, and when the invocation fails that sample carries
\* the error flag. Stated for the path of main.py, process_audio_directly.
C12_OneSamplePerEngineCall ==
  (main_result.op = "process" /\ main_result.engine_called)
    => /\ Len(main_result.samples) = 1
       /\ main_result.failed => main_result.samples[1].error_occurred

(***************************************************************************)
(* Claims about joining a session                                          *)
(***************************************************************************)
\* C13: a caller that asks to reuse an existing session id when adding a connection
\* gets a connection mapped to that session, which then has more than one
\* connection, and the join replaces neither the session's buffer nor its subscriber
\* set. Stated for the state right after the connection was accepted.
C13_JoinExistingSession ==
  \A c \in Connections :
    (/\ route_request.op = "stream_with_session"
     /\ route_request.connection_id = c
     /\ route_request.existing
     /\ rss_handler[c] = "welcome")
      => /\ SessionOf(c) = route_request.session_id
         /\ Cardinality(rss_session_connections[route_request.session_id]) > 1

\* C14: send_message to a connection whose transport is closed returns False (it does
\* not raise) and leaves the connection in none of the registries, its session being
\* removed when it was the session's last connection and kept, without it, otherwise;
\* send_message to an id that is not registered returns False and changes nothing.
C14_SendToClosedRemoves ==
  [][\A c \in Connections :
       send_message(c) =>
         /\ c \notin cm.active_connections => (cm' = cm /\ cm_result'.ok = FALSE)
         /\ (c \in cm.active_connections /\ cm_transport[c] = "closed") =>
              LET sid == cm.connection_sessions[c].session_id
              IN /\ cm_result'.ok = FALSE
                 /\ c \notin cm'.active_connections
                 /\ c \notin DOMAIN cm'.connection_sessions
                 /\ c \notin cm'.connection_metadata
                 /\ \A s \in DOMAIN cm'.session_connections : c \notin cm'.session_connections[s]
                 /\ IF cm.session_connections[sid] = {c}
                      THEN sid \notin DOMAIN cm'.session_connections
                      ELSE cm'.session_connections[sid] = cm.session_connections[sid] \ {c}]_vars

\* a send that found the transport closed has just removed the last connection of a
\* session, and with it the session
C14_Witness ==
  /\ cm_result.op = "send"
  /\ cm_result.ok = FALSE
  /\ cm_transport[cm_result.connection_id] = "closed"
  /\ cm_result.connection_id \notin cm.active_connections
  /\ cm.stats.total_sessions > 0
  /\ cm.session_connections = EmptyMap

\* a message of the audio topic that decodes: its key is UTF-8 text (or empty) and its
\* value is a record of the audio chunk schema
WellFormed(message) ==
  /\ ~key_deserializer(message.key).raised
  /\ deserialize_audio_chunk(message.value) # EmptyDict

\* C15: no message stops the consumer loop (once started it stays alive), and every
\* well-formed message the loop has passed was forwarded to _process_audio_chunk,
\* whatever malformed messages came before it.
C15_LoopSkipsBadMessages ==
  /\ kss_started = "True" => kss_loop
  /\ \A i \in 1..kss_offset :
       WellFormed(kss_audio_topic[i]) =>
         \E j \in 1..Len(kss_processed) :
           kss_processed[j] = [path |-> "consumer",
                               chunk |-> deserialize_audio_chunk(kss_audio_topic[i].value)]

\* C16: when a monitor cycle (drift check, then baseline update) has given a model its
\* first baseline, the baseline at the end of the cycle equals the average of the
\* window the drift check used, and the check appended no alert for that model.
C16_BootstrapBaselineIsWindowAverage ==
  \A m \in mms_check.bootstrapped :
    mms_pc = "check" =>
      /\ mms_baseline_metrics[m] = mms_check.current[m]
      /\ \A i \in 1..Len(mms_check.alerts) : mms_check.alerts[i].model_name # m

\* C17: a model has a baseline only if its history held at least the minimum number
\* of samples when the baseline was set, and a drift check compares, and appends
\* alerts for, only models whose history held at least that many samples.
C17_BaselineNeedsMinimumSamples ==
  /\ \A m \in DOMAIN mms_baseline_metrics : mms_baseline_len[m] >= min_data_points
  /\ \A m \in DOMAIN mms_check.compared : mms_check.lens[m] >= min_data_points
  /\ \A i \in 1..Len(mms_check.alerts) :
       mms_check.lens[mms_check.alerts[i].model_name] >= min_data_points
  /\ \A i \in 1..Len(mms_alert_history) :
       mms_alert_history[i].model_name \in DOMAIN mms_baseline_metrics

\* a model whose baseline was set at exactly the minimum has been compared in a check
\* that appended an alert
C17_Witness ==
  /\ "whisper" \in DOMAIN mms_check.compared
  /\ mms_baseline_len["whisper"] = min_data_points
  /\ mms_check.alerts # <<>>

\* the drift fraction as the specification defines it
SpecifiedDrift(metric_name, current_value, baseline_value) ==
  IF metric_name = "confidence"
    THEN Frac(baseline_value.num * current_value.den - current_value.num * baseline_value.den,
              baseline_value.num * current_value.den)
    ELSE Frac(current_value.num * baseline_value.den - baseline_value.num * current_value.den,
              baseline_value.num * current_value.den)

\* the alerts the last drift check appended for a metric of a model
AlertsOf(m, metric_name) ==
  SelectSeq(mms_check.alerts,
            LAMBDA a : a.model_name = m /\ a.metric_name = metric_name)

SpecifiedSeverity(d, t) ==
  IF FracGE(d, FracMul(t, 3, 1)) THEN "critical"
  ELSE IF FracGE(d, FracMul(t, 2, 1)) THEN "high"
  ELSE IF FracGE(d, FracMul(t, 3, 2)) THEN "medium"
  ELSE "low"

\* C19: for a drift fraction d above the threshold t, _determine_severity answers
\* critical when d >= 3t, high when 2t <= d < 3t, medium when 1.5t <= d < 2t and low
\* otherwise.
C19_SeverityByMultiples ==
  (sev_call.op = "severity" /\ FracGT(sev_call.drift_percentage, sev_call.threshold))
    => sev_call.severity = SpecifiedSeverity(sev_call.drift_percentage, sev_call.threshold)

\* C20: a drift check that compares a window average confidence of 0.70 with a
\* baseline confidence of 0.90 appends a confidence alert, of severity medium.
C20_ConfidenceDropIsMedium ==
  \A m \in DOMAIN mms_check.compared :
    (/\ mms_check.compared[m]["confidence"] = Frac(90, 1)
     /\ mms_check.current[m]["confidence"] = Frac(70, 1))
      => /\ AlertsOf(m, "confidence") # <<>>
         /\ \A i \in 1..Len(AlertsOf(m, "confidence")) :
              AlertsOf(m, "confidence")[i].severity = "medium"

\* how bad a severity is, and the status of each degree
SeverityRank(severity) ==
  CASE severity = "critical" -> 3 [] severity = "high" -> 2 [] OTHER -> 1
StatusOfRank(r) ==
  CASE r = 3 -> "critical" [] r = 2 -> "warning" [] r = 1 -> "degraded" [] OTHER -> "healthy"
StatusRank(status) ==
  CASE status = "critical" -> 3 [] status = "warning" -> 2 [] status = "degraded" -> 1
    [] OTHER -> 0

\* the rank of the most severe alert of model m within the last hour of the call
WorstRecent(m) ==
  LET ranks == {SeverityRank(health_call.alert_history[i].severity) :
                  i \in {j \in 1..Len(health_call.alert_history) :
                           /\ health_call.alert_history[j].model_name = m
                           /\ health_call.now - health_call.alert_history[j].timestamp < OneHour}}
  IN IF ranks = {} THEN 0 ELSE CHOOSE r \in ranks : \A q \in ranks : q <= r

C22_MonitorSurvivesException ==
  \A n \in {0, 1} :
    (mms_failed /\ mms_cycle = n /\ mms_active) ~> (mms_cycle # n \/ ~mms_active)

\* an exception was raised in the baseline refresh of a cycle, monitoring is active and
\* the thread is about to begin the next cycle
C22_Witness ==
  /\ mms_failed
  /\ mms_active
  /\ mms_pc = "check"
  /\ mms_baseline_metrics # EmptyMap

\* how many times chunk i occurs in the session's buffer
InBuffer(i) ==
  IF DrainSession \in DOMAIN drain_audio_buffers
    THEN Cardinality({j \in 1..Len(drain_audio_buffers[DrainSession]) :
                        drain_audio_buffers[DrainSession][j] = i})
    ELSE 0

\* C23: under any interleaving of add_audio_chunk, clearing get_audio_chunks and
\* cleanup_session calls on one session, every appended chunk is returned by at most
\* one drain, and it is in exactly one place: still buffered, returned by one drain,
\* evicted by overflow, or removed with the session's buffer.
C23_ChunkDrainedExactlyOnce ==
  \A i \in 1..(drain_next_id - 1) :
    /\ drain_returned[i] <= 1
    /\ InBuffer(i) + drain_returned[i] + (IF i \in drain_evicted THEN 1 ELSE 0)
         + (IF i \in drain_removed THEN 1 ELSE 0) = 1

\* a drain stands between its copy and its clear while another coroutine waits for the
\* lock's owner, after an earlier drain returned a chunk and an overflow evicted one
C23_Witness ==
  /\ \E t \in Coroutines : drain_pc[t] = "clear" /\ drain_chunks[t] # <<>>
  /\ \E i \in 1..(drain_next_id - 1) : drain_returned[i] = 1
  /\ drain_evicted # {}

\* C24: in every reachable state the number of chunks buffered for a session is at
\* most the configured capacity (buffer_size), in the AudioStreamProcessor and in the
\* buffers the websocket handler of RealtimeStreamingService fills, also while the
\* dispatcher awaits an engine call and the connection keeps sending audio.
C24_BufferNeverExceedsCapacity ==
  /\ \A s \in DOMAIN asp_audio_buffers : Len(asp_audio_buffers[s]) <= buffer_size
  /\ \A s \in DOMAIN rss_audio_buffers : Len(rss_audio_buffers[s]) <= buffer_size

\* C25: record calls and the background cycle exclude each other: no record call
\* changes a history or the model map while the loop of a drift check is under way,
\* so a check that has returned has evaluated every tracked model.
C25_CycleExcludesRecords ==
  /\ ~thr_interleaved
  /\ thr_pc = "done" =>
       /\ ~thr_error
       /\ thr_evaluated = {thr_keys[i] : i \in 1..Len(thr_keys)}

\* a drift check has returned without evaluating a model that was tracked when it began
C25_ModelSkipped ==
  /\ thr_pc = "done"
  /\ thr_error
  /\ \E i \in 1..thr_iter.size : thr_keys[i] \notin thr_evaluated

\* a message value read back with the transcription-result schema
DecodedResult(b) == ReadRecord(TRANSCRIPTION_RESULT_SCHEMA, b, 1, 1, [kind |-> "dict"])

\* C26: every message _send_transcription_result puts on the transcription topic is
\* keyed by its session id and is a non-empty payload that decodes with the result
\* schema to a record holding session id, chunk id, text, confidence, status and error
\* message, the session id being the key; it is no audio-chunk record.
C26_ResultPublishedWithResultSchema ==
  \A i \in 1..Len(kss_transcription_topic) :
    LET msg == kss_transcription_topic[i]
        d == DecodedResult(msg.value)
    IN /\ msg.value # <<>>
       /\ d.ok
       /\ {"session_id", "chunk_id", "text", "confidence", "status", "error_message"}
            \subseteq DOMAIN d.val
       /\ d.val.session_id = msg.key
       /\ deserialize_audio_chunk(msg.value) = EmptyDict

\* C27: in every state reachable by add_connection calls (completing or raising
\* part-way), remove_connection, send_message and cleanup_inactive_connections, the
\* counters match the registries: stats.active_connections is the number of registered
\* connections, stats.active_sessions the number of sessions, neither is negative, every
\* registered connection is in exactly one session's set and no session's set is empty.
C27_CountersMatchRegistries ==
  /\ cm.stats.active_connections = Cardinality(cm.active_connections)
  /\ cm.stats.active_sessions = Cardinality(DOMAIN cm.session_connections)
  /\ cm.stats.active_connections >= 0
  /\ cm.stats.active_sessions >= 0
  /\ \A c \in cm.active_connections :
        Cardinality({s \in DOMAIN cm.session_connections : c \in cm.session_connections[s]}) = 1
  /\ \A s \in DOMAIN cm.session_connections : cm.session_connections[s] # {}

\* C28: on the /ws/{client_id} endpoint the results sent to one websocket are in the
\* order in which the audio messages they answer were received.
C28_ResultsInReceiveOrder ==
  \A w \in Websockets :
    \A i, j \in 1..Len(ws_sent[w]) : i < j => ws_sent[w][i] < ws_sent[w][j]

\* C29: a websocket whose endpoint call is in its receive loop is registered in the
\* manager under its client id; a disconnect removes only the registration of the
\* websocket that closed.
C29_RunningHandlerStaysRegistered ==
  \A w \in Websockets :
    ws_handler[w] = "running" =>
      /\ ws_client[w] \in DOMAIN ws_active_connections
      /\ ws_active_connections[ws_client[w]] = w

\* C30: while the baseline value of a metric of a model is zero, a drift check appends
\* no alert for that metric of that model, whatever its current value is.
C30_ZeroBaselineNeverAlerts ==
  \A m \in DOMAIN mms_check.compared :
    \A i \in 1..Len(DriftMetrics) :
      mms_check.compared[m][DriftMetrics[i]].num = 0 => AlertsOf(m, DriftMetrics[i]) = <<>>

\* a check compared a model whose error_rate baseline is zero, taken from an error-free
\* window, with a current window that holds errors
C30_Witness ==
  /\ "whisper" \in DOMAIN mms_check.compared
  /\ mms_check.compared["whisper"]["error_rate"].num = 0
  /\ mms_check.current["whisper"]["error_rate"].num > 0

====
